---- MODULE Spec2Model ----
(***************************************************************************)
(* Verification model of the trading core: the resilience layer            *)
(* (error_handling.py: CircuitBreaker, breaker registry, safe_api_call),   *)
(* the exit engine (trading_bot_enhanced.py: ExitModule, driven by         *)
(* TradingBot.run_cycle), the scout (viability scorers, wash-trading       *)
(* detector, assess_token), the trade-signal rules and the real-time       *)
(* executor with its monitor task (enhanced_trading_system.py).  Each      *)
(* component has its own specification over the one set of variables.      *)
(*                                                                         *)
(* Conventions.  Wall-clock time is an integer clock `now`.  Profit and    *)
(* loss ratios are integers in percent (1.00 is 100), volatility likewise, *)
(* and trailing fractions are integers in units of 1/100000, so that every *)
(* comparison of the source is computed exactly.                           *)
(***************************************************************************)
EXTENDS Integers, Sequences, FiniteSets, TLC

VARIABLES
    now,              \* datetime.now() / time.time(), in clock units
    cb,               \* one CircuitBreaker instance
    pc,               \* per caller: "idle", or "running" inside func()
    lastEvent,        \* outcome of the most recent step of call()
    before,           \* history: the breaker as it was before that step
    consecFails,      \* history: failing calls since the last successful one
    consecSucc,       \* history: successful calls since the last failing one
    everOpened,       \* history: the breaker has been OPEN at some time
    probe,            \* history: caller whose call did OPEN -> HALF_OPEN, 0 if none in flight
    besideProbe,      \* history: callers admitted while the probe call was in flight
    circuit_breakers, \* the module-level registry, name -> CircuitBreaker
    error_tracker,    \* the global ErrorTracker: its list of error records
    lastResult,       \* the dict returned by the latest safe_api_call
    em,               \* the ExitModule instance of the TradingBot
    position_open,    \* TradingBot.position_open
    lastDecision,     \* result of the latest check_exit_conditions
    tsoActivations,   \* history: False -> True changes of tso_active in this lifecycle
    partialExits,     \* history: partial exits emitted in this lifecycle
    seenTrigger,      \* history: an earlier tick of this lifecycle had pnl >= activation trigger
    seenPartialLevel, \* history: an earlier tick of this lifecycle had pnl >= 0.75
    trailing_in,      \* arguments of _calculate_dynamic_trailing_pct
    trailing_pct,     \* its result, NoResult before the call
    token_data,       \* the dict handed to calculate_viability_score
    viability_score,  \* result of the enhanced scorer, NoResult before the call
    basic_score,      \* result of the scorer of trading_bot.py, NoResult before the call
    current_rpc_index,\* ScoutModule.current_rpc_index
    wash_in,          \* arguments of _detect_wash_trading
    wash_out,         \* its three sub-checks and its result
    signal_in,        \* arguments of _generate_trade_signal
    trade_signal,     \* the TradeSignal it returns
    active_positions, \* RealTimeExecutorModule.active_positions
    execution_history,\* RealTimeExecutorModule.execution_history
    trade,            \* the execute_trade_with_monitoring coroutine in flight
    monitor,          \* the monitor_active_positions task
    pos_id,           \* history: identity of the position held at each address, 0 if none
    next_id,          \* history: positions opened so far
    closed,           \* history: identities of the positions closed, in order
    staleEval,        \* history: the monitor evaluated a position already closed
    retry,            \* a call of a function wrapped by with_retry
    data_providers,   \* the list of providers: is_connected and what they offer
    token_cache,      \* EnhancedScoutModule.token_cache, address -> (data, timestamp)
    cache_oldest,     \* history: per cache entry, the timestamp of the oldest provider data in it
    fetch,            \* per caller: its get_aggregated_token_data coroutine
    lookup,           \* a best-first price lookup in flight
    is_running,       \* EnhancedTradingSystem.is_running
    cycle,            \* the latest run_enhanced_cycle: how far it got and what came of it
    tracker,          \* an ErrorTracker instance: window_size and errors
    recorded,         \* history: every record handed to its record_error, in order
    error_rate,       \* result of its latest get_error_rate, in millionths
    trade_history,    \* TradingBot.trade_history
    total_pnl         \* TradingBot.total_pnl, in percent

vars == << now, cb, pc, lastEvent, before, consecFails, consecSucc, everOpened, probe,
           besideProbe, circuit_breakers,
           error_tracker, lastResult, em,
           position_open, lastDecision, tsoActivations, partialExits,
           seenTrigger, seenPartialLevel,
           trailing_in, trailing_pct, token_data, viability_score, basic_score,
           current_rpc_index,
           wash_in, wash_out, signal_in, trade_signal,
           active_positions, execution_history, trade, monitor,
           pos_id, next_id, closed, staleEval,
           retry, data_providers, token_cache, cache_oldest, fetch, lookup,
           is_running, cycle, tracker, recorded, error_rate, trade_history, total_pnl >>

cbVars == << cb, pc, lastEvent, before, consecFails, consecSucc, everOpened, probe, besideProbe >>
regVars == << circuit_breakers, error_tracker, lastResult >>
exitVars == << em, position_open, lastDecision, tsoActivations, partialExits,
               seenTrigger, seenPartialLevel >>
trailVars == << trailing_in, trailing_pct >>
scoutVars == << token_data, viability_score, basic_score, current_rpc_index >>
washVars == << wash_in, wash_out >>
signalVars == << signal_in, trade_signal >>
execVars == << active_positions, execution_history, trade, monitor,
               pos_id, next_id, closed, staleEval >>
\* The state of the resilience layer and of the exit engine, and the state
\* of the functions checked on their own.
retryVars == << retry >>
coreVars == << cbVars, regVars, exitVars >>
\* The calls followed step by step: retried calls, provider fetches, cycles.
fetchVars == << data_providers, token_cache, cache_oldest, fetch, lookup >>
cycleVars == << is_running, cycle >>
\* An error tracker of its own, and the books of the TradingBot.
trackVars == << tracker, recorded, error_rate >>
botVars == << trade_history, total_pnl >>
ioVars == << retryVars, fetchVars, cycleVars, trackVars, botVars >>
pureVars == << trailVars, scoutVars, washVars, signalVars, ioVars >>

(***************************************************************************)
(* Bounds of the model.                                                    *)
(***************************************************************************)
MaxTime == 7          \* the clock stops here
MaxThreshold == 3     \* failure_threshold is drawn from 1..MaxThreshold
MaxTimeout == 2       \* timeout is drawn from 1..MaxTimeout
MaxFailures == 6      \* cap of failure_count
NumCallers == 2       \* threads / requests sharing one breaker
MaxErrors == 5        \* errors recorded by the global error tracker

Callers == 1..NumCallers

(***************************************************************************)
(* error_handling.py: CircuitBreaker                                       *)
(***************************************************************************)
CLOSED == "closed"
OPEN == "open"
HALF_OPEN == "half_open"
CircuitState == {CLOSED, OPEN, HALF_OPEN}

NoTime == -1                  \* last_failure_time is None
RequiredSuccesses == 3        \* "Require 3 successes to fully close"

\* CircuitBreaker.__init__
NewCircuitBreaker(threshold, timeout) ==
    [ failure_threshold |-> threshold,
      timeout           |-> timeout,
      failure_count     |-> 0,
      last_failure_time |-> NoTime,
      state             |-> CLOSED,
      success_count     |-> 0 ]

\* Variant: the timeout test admits the call at exactly `timeout`.
ShouldAttemptResetInclusive(b, t) ==
    IF b.last_failure_time = NoTime
    THEN TRUE
    ELSE t - b.last_failure_time >= b.timeout

\* CircuitBreaker._should_attempt_reset
ShouldAttemptReset(b, t) ==
    IF b.last_failure_time = NoTime
    THEN TRUE
    ELSE t - b.last_failure_time > b.timeout

\* Variant: a fourth success is needed to close.
OnSuccessOffByOne(b) ==
    IF b.state = HALF_OPEN
    THEN IF b.success_count + 1 > RequiredSuccesses
         THEN [b EXCEPT !.state = CLOSED, !.failure_count = 0, !.success_count = 0]
         ELSE [b EXCEPT !.success_count = b.success_count + 1]
    ELSE [b EXCEPT !.failure_count = 0]

\* Variant: a success outside HALF_OPEN leaves failure_count alone.
OnSuccessNoReset(b) ==
    IF b.state = HALF_OPEN
    THEN IF b.success_count + 1 >= RequiredSuccesses
         THEN [b EXCEPT !.state = CLOSED, !.failure_count = 0, !.success_count = 0]
         ELSE [b EXCEPT !.success_count = b.success_count + 1]
    ELSE b

\* Variant: closing the breaker leaves success_count as counted.
OnSuccessKeepsCount(b) ==
    IF b.state = HALF_OPEN
    THEN IF b.success_count + 1 >= RequiredSuccesses
         THEN [b EXCEPT !.state = CLOSED, !.failure_count = 0,
                        !.success_count = b.success_count + 1]
         ELSE [b EXCEPT !.success_count = b.success_count + 1]
    ELSE [b EXCEPT !.failure_count = 0]

\* CircuitBreaker._on_success
OnSuccess(b) ==
    IF b.state = HALF_OPEN
    THEN IF b.success_count + 1 >= RequiredSuccesses
         THEN [b EXCEPT !.state = CLOSED, !.failure_count = 0, !.success_count = 0]
         ELSE [b EXCEPT !.success_count = b.success_count + 1]
    ELSE [b EXCEPT !.failure_count = 0]

\* Variant: the breaker opens one failure late.
OnFailureStrict(b, t) ==
    LET b1 == [b EXCEPT !.failure_count = b.failure_count + 1,
                        !.last_failure_time = t,
                        !.success_count = 0]
    IN  IF b1.failure_count > b1.failure_threshold
        THEN [b1 EXCEPT !.state = OPEN]
        ELSE b1

\* Variant: a failure leaves success_count alone.
OnFailureKeepsSuccesses(b, t) ==
    LET b1 == [b EXCEPT !.failure_count = b.failure_count + 1,
                        !.last_failure_time = t]
    IN  IF b1.failure_count >= b1.failure_threshold
        THEN [b1 EXCEPT !.state = OPEN]
        ELSE b1

\* CircuitBreaker._on_failure
OnFailure(b, t) ==
    LET b1 == [b EXCEPT !.failure_count = b.failure_count + 1,
                        !.last_failure_time = t,
                        !.success_count = 0]
    IN  IF b1.failure_count >= b1.failure_threshold
        THEN [b1 EXCEPT !.state = OPEN]
        ELSE b1

\* CircuitBreaker.call, lines 44-49: the gate in front of func().
\* TRUE when the call raises CircuitBreakerOpenError.
Rejects(b, t) == b.state = OPEN /\ ~ShouldAttemptReset(b, t)

\* Variant: the gate moves every OPEN breaker to HALF_OPEN.
AfterGateAlwaysProbes(b, t) ==
    IF b.state = OPEN
    THEN [b EXCEPT !.state = HALF_OPEN]
    ELSE b

\* The breaker as left by the gate of call(), lines 44-49.
AfterGate(b, t) ==
    IF b.state = OPEN /\ ShouldAttemptReset(b, t)
    THEN [b EXCEPT !.state = HALF_OPEN]
    ELSE b

AllIdle == \A c \in Callers : pc[c] = "idle"

\* call() raises CircuitBreakerOpenError; func is not invoked.
CallRejected(c) ==
    /\ pc[c] = "idle"
    /\ Rejects(cb, now)
    /\ cb' = AfterGate(cb, now)
    /\ lastEvent' = "rejected"
    /\ before' = cb
    /\ UNCHANGED << now, pc, consecFails, consecSucc, everOpened, probe, besideProbe >>
    /\ UNCHANGED regVars
    /\ UNCHANGED exitVars
    /\ UNCHANGED pureVars
    /\ UNCHANGED execVars

\* call() passes the gate and enters func().
CallAdmitted(c) ==
    /\ pc[c] = "idle"
    /\ ~Rejects(cb, now)
    /\ cb' = AfterGate(cb, now)
    /\ pc' = [pc EXCEPT ![c] = "running"]
    /\ lastEvent' = "invoked"
    /\ before' = cb
    /\ probe' = IF cb.state = OPEN THEN c ELSE probe
    /\ besideProbe' = IF probe # 0 /\ probe # c
                      THEN besideProbe \cup {c}
                      ELSE besideProbe
    /\ UNCHANGED << now, consecFails, consecSucc, everOpened >>
    /\ UNCHANGED regVars
    /\ UNCHANGED exitVars
    /\ UNCHANGED pureVars
    /\ UNCHANGED execVars

\* func() returns: _on_success, then the result is returned.
CallReturns(c) ==
    /\ pc[c] = "running"
    /\ cb' = OnSuccess(cb)
    /\ pc' = [pc EXCEPT ![c] = "idle"]
    /\ lastEvent' = "returned"
    /\ before' = cb
    /\ consecFails' = 0
    /\ consecSucc' = IF consecSucc < RequiredSuccesses THEN consecSucc + 1 ELSE consecSucc
    /\ probe' = IF probe = c THEN 0 ELSE probe
    /\ besideProbe' = IF probe = c THEN {} ELSE besideProbe \ {c}
    /\ UNCHANGED << now, everOpened >>
    /\ UNCHANGED regVars
    /\ UNCHANGED exitVars
    /\ UNCHANGED pureVars
    /\ UNCHANGED execVars

\* func() raises: _on_failure, then the exception is re-raised.
CallRaises(c) ==
    /\ pc[c] = "running"
    /\ cb.failure_count < MaxFailures
    /\ cb' = OnFailure(cb, now)
    /\ pc' = [pc EXCEPT ![c] = "idle"]
    /\ lastEvent' = "raised"
    /\ before' = cb
    /\ consecFails' = consecFails + 1
    /\ consecSucc' = 0
    /\ everOpened' = (everOpened \/ cb'.state = OPEN)
    /\ probe' = IF probe = c THEN 0 ELSE probe
    /\ besideProbe' = IF probe = c THEN {} ELSE besideProbe \ {c}
    /\ UNCHANGED now
    /\ UNCHANGED regVars
    /\ UNCHANGED exitVars
    /\ UNCHANGED pureVars
    /\ UNCHANGED execVars

\* The clock advances.
TimePasses ==
    /\ now < MaxTime
    /\ now' = now + 1
    /\ UNCHANGED cbVars
    /\ UNCHANGED regVars
    /\ UNCHANGED exitVars
    /\ UNCHANGED pureVars
    /\ UNCHANGED execVars


(***************************************************************************)
(* error_handling.py: the breaker registry, safe_api_call and its          *)
(* decorators handle_api_errors and track_errors                           *)
(***************************************************************************)
RegisteredNames == {"coingecko", "bitquery", "dexscreener", "database"}
UnregisteredNames == {"etherscan"}
ServiceNames == RegisteredNames \cup UnregisteredNames

ApiTimeout == 30              \* coingecko, bitquery, dexscreener
ApiThreshold == 3
DatabaseTimeout == 60
DatabaseThreshold == 5

RegClockStep == 61            \* seconds per step of the registry clock
MaxRegTime == 61

\* circuit_breakers = {...}
InitialCircuitBreakers ==
    [ n \in RegisteredNames |->
        IF n = "database"
        THEN NewCircuitBreaker(DatabaseThreshold, DatabaseTimeout)
        ELSE NewCircuitBreaker(ApiThreshold, ApiTimeout) ]

\* get_circuit_breaker: the registry key the lookup resolves to
\* (dict.get with the "database" breaker as the default).
BreakerKey(service_name) ==
    IF service_name \in DOMAIN circuit_breakers
    THEN service_name
    ELSE "database"

\* get_circuit_breaker
GetCircuitBreaker(service_name) == circuit_breakers[BreakerKey(service_name)]

\* What api_function does: it returns ("ok") or raises one of these.
Exceptions == {"ConnectionError", "ValueError"}
Outcomes == {"ok"} \cup Exceptions

WindowSize == 100             \* ErrorTracker.window_size

\* ErrorTracker.record_error
RecordError(errors, error_type, function_name, t) ==
    LET appended == Append(errors, [ timestamp     |-> t,
                                     error_type    |-> error_type,
                                     function_name |-> function_name ])
    IN  IF Len(appended) > WindowSize
        THEN SubSeq(appended, Len(appended) - WindowSize + 1, Len(appended))
        ELSE appended

\* ErrorTracker.__init__
NewErrorTracker(window_size) ==
    [ window_size |-> window_size, errors |-> << >> ]

\* Variant: the tracker keeps the oldest window_size records.
TrackerRecordErrorKeepsOldest(tr, error_type, function_name, t) ==
    LET appended == Append(tr.errors, [ timestamp     |-> t,
                                        error_type    |-> error_type,
                                        function_name |-> function_name ])
    IN  IF Len(appended) > tr.window_size
        THEN [tr EXCEPT !.errors = SubSeq(appended, 1, tr.window_size)]
        ELSE [tr EXCEPT !.errors = appended]

\* ErrorTracker.record_error on a tracker of any window_size
TrackerRecordError(tr, error_type, function_name, t) ==
    LET appended == Append(tr.errors, [ timestamp     |-> t,
                                        error_type    |-> error_type,
                                        function_name |-> function_name ])
    IN  IF Len(appended) > tr.window_size
        THEN [tr EXCEPT !.errors =
                 SubSeq(appended, Len(appended) - tr.window_size + 1, Len(appended))]
        ELSE [tr EXCEPT !.errors = appended]

\* ErrorTracker.get_error_rate, in millionths: the records younger than
\* time_window over window_size.
GetErrorRate(tr, time_window, t) ==
    LET recent_errors == { i \in 1..Len(tr.errors) :
                              tr.errors[i].timestamp > t - time_window }
    IN  IF recent_errors = {}
        THEN 0
        ELSE (Cardinality(recent_errors) * 1000000) \div tr.window_size

MaxWindow == 3                \* window_size is drawn from 1..MaxWindow
MaxRecorded == 4              \* record_error calls made on the tracker
MaxTrackTime == 2             \* the clock of the tracker stops here
TimeWindows == {0, 1, 3}      \* time_window of get_error_rate, in clock units

\* track_errors.wrapper: func raised error_type, which is recorded.
TrackerRecords(error_type, function_name) ==
    /\ Len(recorded) < MaxRecorded
    /\ tracker' = TrackerRecordError(tracker, error_type, function_name, now)
    /\ recorded' = Append(recorded, [ timestamp     |-> now,
                                      error_type    |-> error_type,
                                      function_name |-> function_name ])
    /\ UNCHANGED << now, error_rate >>
    /\ UNCHANGED coreVars
    /\ UNCHANGED << trailVars, scoutVars, washVars, signalVars >>
    /\ UNCHANGED << retryVars, fetchVars, cycleVars, botVars >>
    /\ UNCHANGED execVars

\* get_error_rate(time_window) is called.
TrackerRate(time_window) ==
    /\ error_rate' = GetErrorRate(tracker, time_window, now)
    /\ UNCHANGED << now, tracker, recorded >>
    /\ UNCHANGED coreVars
    /\ UNCHANGED << trailVars, scoutVars, washVars, signalVars >>
    /\ UNCHANGED << retryVars, fetchVars, cycleVars, botVars >>
    /\ UNCHANGED execVars

\* The clock of the tracker advances.
TrackerTimePasses ==
    /\ now < MaxTrackTime
    /\ now' = now + 1
    /\ UNCHANGED coreVars
    /\ UNCHANGED pureVars
    /\ UNCHANGED execVars

\* Variant: TimeoutError is not told apart from the unexpected exceptions.
HandleApiErrorsNoTimeout(raised) ==
    IF raised = "ok"
    THEN [ success |-> TRUE, error |-> "", retry |-> FALSE, error_type |-> "" ]
    ELSE IF raised = "ConnectionError"
    THEN [ success |-> FALSE, error |-> "Connection failed", retry |-> TRUE,
           error_type |-> "connection" ]
    ELSE IF raised = "CircuitBreakerOpenError"
    THEN [ success |-> FALSE, error |-> "Service unavailable", retry |-> FALSE,
           error_type |-> "circuit_breaker" ]
    ELSE IF raised = "ValueError"
    THEN [ success |-> FALSE, error |-> "Invalid data", retry |-> FALSE,
           error_type |-> "validation" ]
    ELSE [ success |-> FALSE, error |-> "Internal error", retry |-> FALSE,
           error_type |-> "internal" ]

\* handle_api_errors: the dict returned for what the wrapped call did
HandleApiErrors(raised) ==
    IF raised = "ok"
    THEN [ success |-> TRUE, error |-> "", retry |-> FALSE, error_type |-> "" ]
    ELSE IF raised = "ConnectionError"
    THEN [ success |-> FALSE, error |-> "Connection failed", retry |-> TRUE,
           error_type |-> "connection" ]
    ELSE IF raised = "TimeoutError"
    THEN [ success |-> FALSE, error |-> "Request timeout", retry |-> TRUE,
           error_type |-> "timeout" ]
    ELSE IF raised = "CircuitBreakerOpenError"
    THEN [ success |-> FALSE, error |-> "Service unavailable", retry |-> FALSE,
           error_type |-> "circuit_breaker" ]
    ELSE IF raised = "ValueError"
    THEN [ success |-> FALSE, error |-> "Invalid data", retry |-> FALSE,
           error_type |-> "validation" ]
    ELSE [ success |-> FALSE, error |-> "Internal error", retry |-> FALSE,
           error_type |-> "internal" ]

\* safe_api_call(service_name, api_function) where api_function does
\* `outcome`; calls are made one after another.
SafeApiCall(service_name, outcome) ==
    LET key    == BreakerKey(service_name)
        b      == circuit_breakers[key]
        b1     == AfterGate(b, now)
        raised == IF Rejects(b, now) THEN "CircuitBreakerOpenError" ELSE outcome
    IN  /\ Len(error_tracker) < MaxErrors
        /\ circuit_breakers' =
              IF Rejects(b, now)
              THEN circuit_breakers
              ELSE [circuit_breakers EXCEPT
                      ![key] = IF outcome = "ok" THEN OnSuccess(b1) ELSE OnFailure(b1, now)]
        /\ error_tracker' =
              IF raised = "ok"
              THEN error_tracker
              ELSE RecordError(error_tracker, raised, "safe_api_call", now)
        /\ lastResult' = HandleApiErrors(raised)
        /\ UNCHANGED now
        /\ UNCHANGED cbVars
        /\ UNCHANGED exitVars
        /\ UNCHANGED pureVars
        /\ UNCHANGED execVars

\* The clock of the registry advances.
RegTimePasses ==
    /\ now < MaxRegTime
    /\ now' = now + RegClockStep
    /\ UNCHANGED cbVars
    /\ UNCHANGED regVars
    /\ UNCHANGED exitVars
    /\ UNCHANGED pureVars
    /\ UNCHANGED execVars

(***************************************************************************)
(* trading_bot_enhanced.py: ExitModule                                     *)
(***************************************************************************)
InitialStopLossPct == -50       \* initial_stop_loss_pct = -0.50
ActivationTriggerPct == 100     \* activation_trigger_pct = 1.00
BaseTrailingPct == 20           \* base_trailing_pct = 0.20
PartialExitPct == 75            \* current_pnl >= 0.75
MaxHoldTime == 1800             \* max_hold_time, seconds
TimeExitPct == 50               \* current_pnl < 0.5

PnlTicks == {-60, -50, -20, 0, 40, 75, 90, 100, 120, 160, 210}
Volatilities == {0, 30, 100}
ExitClockStep == 700            \* seconds per step of the monitoring clock
MaxExitTime == 2800

\* ExitModule.__init__
NewExitModule ==
    [ initial_stop_loss_pct  |-> InitialStopLossPct,
      activation_trigger_pct |-> ActivationTriggerPct,
      base_trailing_pct      |-> BaseTrailingPct,
      current_pnl            |-> 0,
      peak_pnl               |-> 0,
      tso_active             |-> FALSE,
      position_start_time    |-> NoTime,
      partial_exit_executed  |-> FALSE ]

Min(a, b) == IF a < b THEN a ELSE b
Max(a, b) == IF a > b THEN a ELSE b

\* Variant: the result is capped at 0.35 but has no floor.
CalculateDynamicTrailingPctNoFloor(m, volatility, current_profit) ==
    LET base     == m.base_trailing_pct * 1000
        adjusted == base + Min(volatility * 500, 15000)
        scaled   == IF current_profit > 200 THEN (adjusted * 7) \div 10
                    ELSE IF current_profit > 150 THEN (adjusted * 8) \div 10
                    ELSE IF current_profit > 100 THEN (adjusted * 9) \div 10
                    ELSE adjusted
    IN  Min(35000, scaled)

\* ExitModule._calculate_dynamic_trailing_pct, result in units of 1/100000
CalculateDynamicTrailingPct(m, volatility, current_profit) ==
    LET base     == m.base_trailing_pct * 1000
        adjusted == base + Min(volatility * 500, 15000)
        scaled   == IF current_profit > 200 THEN (adjusted * 7) \div 10
                    ELSE IF current_profit > 150 THEN (adjusted * 8) \div 10
                    ELSE IF current_profit > 100 THEN (adjusted * 9) \div 10
                    ELSE adjusted
    IN  Max(5000, Min(35000, scaled))

\* ExitModule._check_time_based_exit
CheckTimeBasedExit(m, t) ==
    /\ m.position_start_time # NoTime
    /\ t - m.position_start_time > MaxHoldTime
    /\ m.current_pnl < TimeExitPct

\* Variant: update_pnl never raises the peak.
UpdatePnlNoPeak(m, new_pnl, t) ==
    LET m1 == [m EXCEPT !.current_pnl = new_pnl]
    IN  IF new_pnl = 0
        THEN [m1 EXCEPT !.peak_pnl = 0,
                        !.tso_active = FALSE,
                        !.position_start_time = t,
                        !.partial_exit_executed = FALSE]
        ELSE m1

\* Variant: the reset of a new position keeps the peak and the partial-exit
\* flag of the previous one.
UpdatePnlKeepsPrevious(m, new_pnl, t) ==
    LET m1 == [m EXCEPT !.current_pnl = new_pnl]
    IN  IF new_pnl = 0
        THEN [m1 EXCEPT !.tso_active = FALSE,
                        !.position_start_time = t]
        ELSE IF m1.current_pnl > m1.peak_pnl
             THEN [m1 EXCEPT !.peak_pnl = m1.current_pnl]
             ELSE m1

\* ExitModule.update_pnl
UpdatePnl(m, new_pnl, t) ==
    LET m1 == [m EXCEPT !.current_pnl = new_pnl]
    IN  IF new_pnl = 0
        THEN [m1 EXCEPT !.peak_pnl = 0,
                        !.tso_active = FALSE,
                        !.position_start_time = t,
                        !.partial_exit_executed = FALSE]
        ELSE IF m1.current_pnl > m1.peak_pnl
             THEN [m1 EXCEPT !.peak_pnl = m1.current_pnl]
             ELSE m1

\* ExitModule._execute_partial_exit: the condition under which it fires
ExecutePartialExit(m) ==
    ~m.partial_exit_executed /\ m.current_pnl >= PartialExitPct

\* ExitModule.check_exit_conditions, step 3: TSO activation
ActivateTso(m) ==
    IF ~m.tso_active /\ m.current_pnl >= m.activation_trigger_pct
    THEN [m EXCEPT !.tso_active = TRUE, !.peak_pnl = m.current_pnl]
    ELSE m

\* ExitModule.check_exit_conditions, step 4: the trailing fraction, which
\* the call computes from the volatility and current_pnl
DynamicTrailingPct(m, volatility) ==
    CalculateDynamicTrailingPct(m, volatility, m.current_pnl)

\* ExitModule.check_exit_conditions, step 4: the trailing stop is hit
TrailingStopHit(m, volatility) ==
    /\ m.tso_active
    /\ m.current_pnl * 100000 <=
          m.peak_pnl * (100000 - DynamicTrailingPct(m, volatility))

Decision(m, exit, reason, partial) ==
    [ m |-> m, exit |-> exit, reason |-> reason, partial |-> partial ]

\* Variant: the fixed stop loss is tested after the trailing stop.
CheckExitConditionsTrailingFirst(m, volatility, t, spike) ==
    IF ExecutePartialExit(m)
    THEN Decision([m EXCEPT !.partial_exit_executed = TRUE], FALSE, "PARTIAL_EXIT", TRUE)
    ELSE LET m3 == ActivateTso(m)
         IN  IF TrailingStopHit(m3, volatility)
             THEN Decision(m3, TRUE, "TRAILING_STOP", FALSE)
             ELSE IF m3.current_pnl <= m3.initial_stop_loss_pct
             THEN Decision(m3, TRUE, "STOP_LOSS", FALSE)
             ELSE IF CheckTimeBasedExit(m3, t)
             THEN Decision(m3, TRUE, "TIME_BASED", FALSE)
             ELSE IF spike
             THEN Decision(m3, TRUE, "VOLUME_BASED", FALSE)
             ELSE Decision(m3, FALSE, "NONE", FALSE)

\* ExitModule.check_exit_conditions; spike is the outcome of the random
\* draw of _check_volume_based_exit.
CheckExitConditions(m, volatility, t, spike) ==
    IF m.current_pnl <= m.initial_stop_loss_pct
    THEN Decision(m, TRUE, "STOP_LOSS", FALSE)
    ELSE IF ExecutePartialExit(m)
    THEN Decision([m EXCEPT !.partial_exit_executed = TRUE], FALSE, "PARTIAL_EXIT", TRUE)
    ELSE LET m3 == ActivateTso(m)
         IN  IF TrailingStopHit(m3, volatility)
             THEN Decision(m3, TRUE, "TRAILING_STOP", FALSE)
             ELSE IF CheckTimeBasedExit(m3, t)
             THEN Decision(m3, TRUE, "TIME_BASED", FALSE)
             ELSE IF spike
             THEN Decision(m3, TRUE, "VOLUME_BASED", FALSE)
             ELSE Decision(m3, FALSE, "NONE", FALSE)

NoDecision == [ exit |-> FALSE, reason |-> "NONE", partial |-> FALSE ]

\* TradingBot.run_cycle, phase 2: the trade executes and the position opens.
OpenPosition ==
    /\ ~position_open
    /\ position_open' = TRUE
    /\ em' = UpdatePnl(em, 0, now)
    /\ lastDecision' = lastDecision
    /\ tsoActivations' = 0
    /\ partialExits' = 0
    /\ seenTrigger' = FALSE
    /\ seenPartialLevel' = FALSE
    /\ UNCHANGED now
    /\ UNCHANGED cbVars
    /\ UNCHANGED regVars
    /\ UNCHANGED pureVars
    /\ UNCHANGED execVars

\* TradingBot.run_cycle, phase 3: one iteration of the monitoring loop,
\* update_pnl(p, volatility) followed by check_exit_conditions(volatility).
PriceTick(p, volatility, spike) ==
    LET m1 == UpdatePnl(em, p, now)
        d  == CheckExitConditions(m1, volatility, now, spike)
    IN  /\ position_open
        /\ em' = d.m
        /\ lastDecision' = [ exit |-> d.exit, reason |-> d.reason, partial |-> d.partial ]
        /\ position_open' = ~d.exit
        /\ tsoActivations' = IF ~em.tso_active /\ d.m.tso_active /\ tsoActivations < 2
                             THEN tsoActivations + 1
                             ELSE tsoActivations
        /\ partialExits' = IF d.partial /\ partialExits < 2
                           THEN partialExits + 1
                           ELSE partialExits
        /\ seenTrigger' = (seenTrigger \/ p >= em.activation_trigger_pct)
        /\ seenPartialLevel' = (seenPartialLevel \/ p >= PartialExitPct)
        /\ UNCHANGED now
        /\ UNCHANGED cbVars
        /\ UNCHANGED regVars
        /\ UNCHANGED pureVars
        /\ UNCHANGED execVars

\* TradingBot.run_cycle: "Simulation ended - manual close".
ForceClose ==
    /\ position_open
    /\ position_open' = FALSE
    /\ lastDecision' = [ exit |-> TRUE, reason |-> "MANUAL", partial |-> FALSE ]
    /\ UNCHANGED << now, em, tsoActivations, partialExits, seenTrigger, seenPartialLevel >>
    /\ UNCHANGED cbVars
    /\ UNCHANGED regVars
    /\ UNCHANGED pureVars
    /\ UNCHANGED execVars

\* The clock of the monitoring loop advances.
ExitTimePasses ==
    /\ now < MaxExitTime
    /\ now' = now + ExitClockStep
    /\ UNCHANGED cbVars
    /\ UNCHANGED regVars
    /\ UNCHANGED exitVars
    /\ UNCHANGED pureVars
    /\ UNCHANGED execVars

(***************************************************************************)
(* trading_bot_enhanced.py: TradingBot.run_cycle and its trade log         *)
(***************************************************************************)
MaxCycles == 3                  \* run_cycle calls made on one TradingBot
MaxSteps == 2                   \* length of the simulated pnl sequence
ViabilityThreshold == 70        \* "if viability_score < 70"
CycleTicks == {-60, 0, 75, 120}
CycleVolatilities == {30, 100}
CycleTokens == {"0xA"}

\* The TradingBot: its exit module, its flag and its books.
Bot == [ exit_module   |-> em,
         position_open |-> position_open,
         trade_history |-> trade_history,
         total_pnl     |-> total_pnl ]

\* Variant: the record is appended but total_pnl is left alone.
LogTradeResultNoTotal(b, token_address, result, final_pnl, reason) ==
    [b EXCEPT !.trade_history = Append(@, [ token  |-> token_address,
                                            result |-> result,
                                            pnl    |-> final_pnl,
                                            reason |-> reason ])]

\* TradingBot._log_trade_result
LogTradeResult(b, token_address, result, final_pnl, reason) ==
    [b EXCEPT !.trade_history = Append(@, [ token  |-> token_address,
                                            result |-> result,
                                            pnl    |-> final_pnl,
                                            reason |-> reason ]),
              !.total_pnl = @ + final_pnl]

\* run_cycle, phase 3: the monitoring loop from step i on, the forced close
\* after it, and the except clause around both.  raise_at is the step at
\* whose start an exception is raised, 0 for none.
RECURSIVE ExitPhase(_, _, _, _, _, _, _)
ExitPhase(b, token_address, steps, i, volatility, raise_at, t) ==
    IF i = raise_at
    THEN [LogTradeResult(b, token_address, "ERROR", 0, "Exit error")
             EXCEPT !.position_open = FALSE]
    ELSE IF i > Len(steps)
    THEN [LogTradeResult(b, token_address, "COMPLETED", b.exit_module.current_pnl,
                         "Simulation ended - manual close")
             EXCEPT !.position_open = FALSE]
    ELSE LET m1 == UpdatePnl(b.exit_module, steps[i].pnl, t)
             d  == CheckExitConditions(m1, volatility, t, steps[i].spike)
             b1 == [b EXCEPT !.exit_module = d.m]
         IN  IF d.exit
             THEN [LogTradeResult(b1, token_address, "COMPLETED", d.m.current_pnl, d.reason)
                      EXCEPT !.position_open = FALSE]
             ELSE ExitPhase(b1, token_address, steps, i + 1, volatility, raise_at, t)

\* TradingBot.run_cycle: the bot as the call leaves it.  The scout raises
\* or returns `score`; execute_trade returns "true" or "false" or raises.
RunCycleOf(b, token_address, in, t) ==
    IF in.scout_raises
    THEN LogTradeResult(b, token_address, "ERROR", 0, "Scout error")
    ELSE IF in.score < ViabilityThreshold
    THEN LogTradeResult(b, token_address, "SKIPPED", 0, "Failed viability check")
    ELSE IF ~b.position_open /\ in.execution = "false"
    THEN LogTradeResult(b, token_address, "FAILED", 0, "Trade execution failed")
    ELSE IF ~b.position_open /\ in.execution = "raise"
    THEN LogTradeResult(b, token_address, "ERROR", 0, "Executor error")
    ELSE LET b2 == IF ~b.position_open
                   THEN [b EXCEPT !.position_open = TRUE,
                                  !.exit_module = UpdatePnl(b.exit_module, 0, t)]
                   ELSE b
         IN  IF b2.position_open
             THEN ExitPhase(b2, token_address, in.steps, 1, in.volatility, in.raise_at, t)
             ELSE b2

\* The simulated pnl sequences, each step with the draw of the volume check.
StepSeqs == UNION { [1..n -> [ pnl : CycleTicks, spike : BOOLEAN ]] : n \in 0..MaxSteps }

\* What the scout, the executor and the market do during one run_cycle.
NoSteps == [ steps |-> << >>, volatility |-> 30, raise_at |-> 0 ]
CycleInputs ==
    { [ scout_raises |-> TRUE, score |-> ViabilityThreshold, execution |-> "true" ] @@ NoSteps }
    \cup { [ scout_raises |-> FALSE, score |-> sc, execution |-> "true" ] @@ NoSteps :
               sc \in {ViabilityThreshold - 1} }
    \cup { [ scout_raises |-> FALSE, score |-> ViabilityThreshold, execution |-> x ] @@ NoSteps :
               x \in {"false", "raise"} }
    \cup { [ scout_raises |-> FALSE, score |-> ViabilityThreshold, execution |-> "true",
             steps |-> st, volatility |-> v, raise_at |-> k ] :
               st \in StepSeqs, v \in CycleVolatilities, k \in 0..(MaxSteps + 1) }

\* run_cycle(token_address) runs from its first line to its return.
RunCycle(token_address, in) ==
    LET b == RunCycleOf(Bot, token_address, in, now)
    IN  /\ Len(trade_history) < MaxCycles
        /\ em' = b.exit_module
        /\ position_open' = b.position_open
        /\ trade_history' = b.trade_history
        /\ total_pnl' = b.total_pnl
        /\ UNCHANGED << now, lastDecision, tsoActivations, partialExits,
                        seenTrigger, seenPartialLevel >>
        /\ UNCHANGED cbVars
        /\ UNCHANGED regVars
        /\ UNCHANGED << trailVars, scoutVars, washVars, signalVars >>
        /\ UNCHANGED << retryVars, fetchVars, cycleVars, trackVars >>
        /\ UNCHANGED execVars

\* Placeholders of values not yet produced.
EmptyDict == << >>                \* {}
NoVerdict == [ called |-> FALSE ]
NoSignal == [ signal_type |-> "NONE" ]
NoTrade == [ pc |-> "none" ]
NoRetry == [ pc |-> "idle" ]
TokenAddresses == {"0xA", "0xB"}

(***************************************************************************)
(* trading_bot_enhanced.py: _calculate_dynamic_trailing_pct on its own     *)
(***************************************************************************)
NoResult == -999999             \* the function has not returned yet

\* Base trailing values, volatilities and profit levels, in percent; the
\* volatilities include negative ones and ones above 1.00.
TrailingBases == {0, 5, 20, 40, 100}
TrailingVolatilities == {-200, -50, 0, 30, 100, 300}
TrailingProfits == {-50, 0, 100, 101, 150, 151, 200, 201, 500}

TrailingInputs ==
    [ base : TrailingBases, volatility : TrailingVolatilities, profit : TrailingProfits ]

\* A call of _calculate_dynamic_trailing_pct(volatility, current_profit) on
\* an ExitModule constructed with base_trailing_pct = base.
CalculateTrailing ==
    /\ trailing_pct = NoResult
    /\ trailing_pct' =
          CalculateDynamicTrailingPct(
              [NewExitModule EXCEPT !.base_trailing_pct = trailing_in.base],
              trailing_in.volatility, trailing_in.profit)
    /\ UNCHANGED << now, trailing_in >>
    /\ UNCHANGED coreVars
    /\ UNCHANGED << scoutVars, washVars, signalVars >>
    /\ UNCHANGED ioVars
    /\ UNCHANGED execVars

(***************************************************************************)
(* trading_bot_enhanced.py: ScoutModule.calculate_viability_score, and the *)
(* scorer of the same name of trading_bot.py.  Concentration and lock      *)
(* ratio are integers in percent, liquidity and volume are in USD, and a   *)
(* score is a number of points; the liquidity tier is kept in tenths so    *)
(* that (tier - 0.5) * 30 is the integer (tenths - 5) * 3.                 *)
(***************************************************************************)

\* log10(1 + 1/d) in thousandths, as trading_bot.py tabulates it
BasicExpectedProbs == << 301, 176, 125, 97, 79, 67, 58, 51, 46 >>

\* ScoutModule.assess_liquidity_depth, result in tenths
AssessLiquidityDepth(td) ==
    LET liquidity_depth == td.liquidity_depth
        volume_24h      == td.volume_24h
        \* liquidity_depth / volume_24h > 0.5, the ratio being inf without volume
        ratio_above_half == IF volume_24h > 0
                            THEN 2 * liquidity_depth > volume_24h
                            ELSE TRUE
    IN  IF liquidity_depth < 10000 THEN 0
        ELSE IF liquidity_depth < 50000 THEN 3
        ELSE IF liquidity_depth < 100000 THEN 6
        ELSE IF ratio_above_half THEN 10
        ELSE 8

\* calculate_viability_score: the additional security flags
SecurityDeductions(security_report) ==
      (IF security_report.transfer_pausable THEN 3 ELSE 0)
    + (IF security_report.is_mintable THEN 3 ELSE 0)
    + (IF security_report.hidden_owner THEN 4 ELSE 0)
    + (IF security_report.can_take_back_ownership THEN 5 ELSE 0)
    + (IF security_report.owner_change_balance THEN 5 ELSE 0)
    + (IF security_report.external_call THEN 2 ELSE 0)

\* Variant: the final score is not clamped.
CalculateViabilityScoreNoClamp(td) ==
    LET security_report == td.security_report
        concentration   == td.top_10_concentration
        lp_locked       == td.lp_locked_percentage
        s0 == 100
        s1 == IF concentration > 50 THEN s0 - 30
              ELSE IF concentration > 40 THEN s0 - 20
              ELSE IF concentration > 30 THEN s0 - 10
              ELSE s0
        s2 == IF lp_locked < 70 THEN s1 - 40
              ELSE IF lp_locked < 85 THEN s1 - 25
              ELSE IF lp_locked < 95 THEN s1 - 10
              ELSE s1
        s3 == IF td.transaction_history.wash_trading_detected THEN s2 - 35 ELSE s2
        s4 == s3 + (AssessLiquidityDepth(td) - 5) * 3
    IN  IF security_report.is_honeypot THEN 0
        ELSE IF security_report.is_blacklisted THEN 0
        ELSE s4 - SecurityDeductions(security_report)

\* Variant: the disqualifying flags are deductions like the others.
CalculateViabilityScoreNoDisqualify(td) ==
    LET security_report == td.security_report
        concentration   == td.top_10_concentration
        lp_locked       == td.lp_locked_percentage
        s0 == 100
        s1 == IF concentration > 50 THEN s0 - 30
              ELSE IF concentration > 40 THEN s0 - 20
              ELSE IF concentration > 30 THEN s0 - 10
              ELSE s0
        s2 == IF lp_locked < 70 THEN s1 - 40
              ELSE IF lp_locked < 85 THEN s1 - 25
              ELSE IF lp_locked < 95 THEN s1 - 10
              ELSE s1
        s3 == IF td.transaction_history.wash_trading_detected THEN s2 - 35 ELSE s2
        s4 == s3 + (AssessLiquidityDepth(td) - 5) * 3
        s5 == s4 - SecurityDeductions(security_report)
        s6 == IF security_report.is_honeypot \/ security_report.is_blacklisted
              THEN s5 - 50 ELSE s5
    IN  Max(0, Min(100, s6))

\* Variant: the lock-ratio thresholds are inclusive.
CalculateViabilityScoreInclusiveLock(td) ==
    LET security_report == td.security_report
        concentration   == td.top_10_concentration
        lp_locked       == td.lp_locked_percentage
        s0 == 100
        s1 == IF concentration > 50 THEN s0 - 30
              ELSE IF concentration > 40 THEN s0 - 20
              ELSE IF concentration > 30 THEN s0 - 10
              ELSE s0
        s2 == IF lp_locked <= 70 THEN s1 - 40
              ELSE IF lp_locked <= 85 THEN s1 - 25
              ELSE IF lp_locked <= 95 THEN s1 - 10
              ELSE s1
        s3 == IF td.transaction_history.wash_trading_detected THEN s2 - 35 ELSE s2
        s4 == s3 + (AssessLiquidityDepth(td) - 5) * 3
        s5 == s4 - SecurityDeductions(security_report)
    IN  IF security_report.is_honeypot THEN 0
        ELSE IF security_report.is_blacklisted THEN 0
        ELSE Max(0, Min(100, s5))

\* ScoutModule.calculate_viability_score (trading_bot_enhanced.py)
CalculateViabilityScore(td) ==
    LET security_report == td.security_report
        concentration   == td.top_10_concentration
        lp_locked       == td.lp_locked_percentage
        s0 == 100
        s1 == IF concentration > 50 THEN s0 - 30
              ELSE IF concentration > 40 THEN s0 - 20
              ELSE IF concentration > 30 THEN s0 - 10
              ELSE s0
        s2 == IF lp_locked < 70 THEN s1 - 40
              ELSE IF lp_locked < 85 THEN s1 - 25
              ELSE IF lp_locked < 95 THEN s1 - 10
              ELSE s1
        s3 == IF td.transaction_history.wash_trading_detected THEN s2 - 35 ELSE s2
        s4 == s3 + (AssessLiquidityDepth(td) - 5) * 3
        s5 == s4 - SecurityDeductions(security_report)
    IN  IF security_report.is_honeypot THEN 0
        ELSE IF security_report.is_blacklisted THEN 0
        ELSE Max(0, Min(100, s5))

\* ScoutModule._check_benfords_law of trading_bot.py: the mean absolute
\* deviation of the digit frequencies from Benford's law is below 0.05
BasicCheckBenfordsLaw(transactions) ==
    LET total_count == Cardinality({ i \in 1..Len(transactions) : transactions[i] > 0 })
        RECURSIVE DigitOf(_)
        DigitOf(t) == IF t < 10 THEN t ELSE DigitOf(t \div 10)
        count(digit) == Cardinality({ i \in 1..Len(transactions) :
                                        transactions[i] > 0 /\ DigitOf(transactions[i]) = digit })
        dev(digit) == LET d == 1000 * count(digit) - BasicExpectedProbs[digit] * total_count
                      IN  IF d < 0 THEN -d ELSE d
    IN  IF total_count = 0 THEN TRUE
        ELSE dev(1) + dev(2) + dev(3) + dev(4) + dev(5) + dev(6) + dev(7) + dev(8) + dev(9)
                < 450 * total_count

\* ScoutModule.calculate_viability_score of trading_bot.py
BasicCalculateViabilityScore(td) ==
    LET security_report == td.security_report
        s0 == 100
        s1 == IF td.top_10_concentration > 40 THEN s0 - 20 ELSE s0
        s2 == IF td.lp_locked_percentage < 85 THEN s1 - 30 ELSE s1
        s3 == IF ~BasicCheckBenfordsLaw(td.transaction_history.transactions)
              THEN s2 - 40 ELSE s2
        s4 == IF td.liquidity_depth < 50000 THEN s3 - 25 ELSE s3
        s5 == IF security_report.is_honeypot THEN 0 ELSE s4
        s6 == IF security_report.is_blacklisted THEN 0 ELSE s5
        s7 == IF security_report.transfer_pausable THEN s6 - 10 ELSE s6
        s8 == IF security_report.is_mintable THEN s7 - 10 ELSE s7
        s9 == IF security_report.hidden_owner THEN s8 - 10 ELSE s8
    IN  Max(0, s9)

(***************************************************************************)
(* trading_bot_enhanced.py: the wash-trading detector.  Transaction sizes  *)
(* are integers as in the source.  The Benford probabilities log10(1+1/d)  *)
(* are kept in thousandths and the chi-square statistic in thousandths,    *)
(* each term rounded down; the coefficient of variation is compared with   *)
(* 0.1 exactly, as a comparison of two fractions.                          *)
(***************************************************************************)
Abs(x) == IF x < 0 THEN -x ELSE x

RECURSIVE LeadingDigit(_)
\* int(str(abs(t))[0]) for t > 0
LeadingDigit(t) == IF t < 10 THEN t ELSE LeadingDigit(t \div 10)

RECURSIVE SumOf(_)
\* sum(transactions)
SumOf(transactions) ==
    IF transactions = << >> THEN 0
    ELSE Head(transactions) + SumOf(Tail(transactions))

RECURSIVE SumOfSquares(_)
\* sum(x**2 for x in transactions)
SumOfSquares(transactions) ==
    IF transactions = << >> THEN 0
    ELSE Head(transactions) * Head(transactions) + SumOfSquares(Tail(transactions))

\* leading_digits.count(digit), over the transactions t > 0
DigitCount(transactions, digit) ==
    Cardinality({ i \in 1..Len(transactions) :
                    transactions[i] > 0 /\ LeadingDigit(transactions[i]) = digit })

\* expected_probs: log10(1 + 1/d) in thousandths
ExpectedProbs == << 301, 176, 125, 97, 79, 67, 58, 51, 46 >>

CriticalValue == 15507          \* critical_value = 15.507, in thousandths

\* d * d \div e for e > 0, computed without forming d * d
SquareOver(d, e) ==
    LET a == Abs(d)
        q == a \div e
        r == a % e
    IN  q * q * e + 2 * q * r + (r * r) \div e

RECURSIVE FractionLess(_, _, _, _)
\* a / b < c / d for a, c >= 0 and b, d > 0, computed without products
FractionLess(a, b, c, d) ==
    LET qa == a \div b
        qc == c \div d
        ra == a % b
        rc == c % d
    IN  IF qa # qc THEN qa < qc
        ELSE IF rc = 0 THEN FALSE
        ELSE IF ra = 0 THEN TRUE
        ELSE FractionLess(d, rc, b, ra)

RECURSIVE ChiSquareFrom(_, _, _)
\* the loop of _check_benfords_law from digit on, in thousandths:
\* ((observed - expected) ** 2) / expected with expected = prob * total_count
ChiSquareFrom(transactions, total_count, digit) ==
    IF digit > 9 THEN 0
    ELSE LET observed == DigitCount(transactions, digit)
             expected == ExpectedProbs[digit] * total_count
         IN  SquareOver(1000 * observed - expected, expected)
               + ChiSquareFrom(transactions, total_count, digit + 1)

\* total_count = sum(counts.values())
TotalCount(transactions) ==
    Cardinality({ i \in 1..Len(transactions) : transactions[i] > 0 })

\* Variant: the Benford check needs no minimum sample size.
CheckBenfordsLawAnySize(transactions) ==
    IF TotalCount(transactions) = 0 THEN TRUE
    ELSE ChiSquareFrom(transactions, TotalCount(transactions), 1) < CriticalValue

\* ScoutModule._check_benfords_law (trading_bot_enhanced.py)
CheckBenfordsLaw(transactions) ==
    IF Len(transactions) < 30 THEN TRUE
    ELSE IF TotalCount(transactions) = 0 THEN TRUE
    ELSE ChiSquareFrom(transactions, TotalCount(transactions), 1) < CriticalValue

\* _detect_wash_trading, method 2: coefficient_of_variation < 0.1, where
\* std_dev / mean_val < 0.1 is sum(x**2) / sum(x) < 101 * sum(x) / (100 * n)
\* and the coefficient is 0 when mean_val <= 0
UniformitySuspicious(transactions) ==
    LET n == Len(transactions)
        total == SumOf(transactions)
    IN  IF n > 10
        THEN IF total > 0
             THEN FractionLess(SumOfSquares(transactions), total, 101 * total, 100 * n)
             ELSE TRUE
        ELSE FALSE

\* _detect_wash_trading, method 3: len(transactions) / unique_addresses > 5,
\* the ratio being 0 when unique_addresses <= 0
AddressRatioSuspicious(transactions, unique_addresses) ==
    IF unique_addresses > 0
    THEN Len(transactions) > 5 * unique_addresses
    ELSE FALSE

\* ScoutModule._detect_wash_trading, with its three intermediate results
DetectWashTrading(transactions, unique_addresses) ==
    LET benford_violation        == ~CheckBenfordsLaw(transactions)
        uniformity_suspicious    == UniformitySuspicious(transactions)
        address_ratio_suspicious == AddressRatioSuspicious(transactions, unique_addresses)
    IN  [ called                   |-> TRUE,
          benford_violation        |-> benford_violation,
          uniformity_suspicious    |-> uniformity_suspicious,
          address_ratio_suspicious |-> address_ratio_suspicious,
          result |-> (benford_violation \/ uniformity_suspicious
                        \/ address_ratio_suspicious) ]

\* [v] * k
Repeat(v, k) == [i \in 1..k |-> v]

\* Samples around the size thresholds 10 and 30: one size throughout, all
\* with leading digit 9 but of two magnitudes, spread as Benford's law
\* expects, and all zero.
UniformSample(k) == Repeat(7, k)
NinesSample(k) == Repeat(9, k \div 2) \o Repeat(90, k - k \div 2)
BenfordSample ==
    Repeat(1, 9) \o Repeat(2, 5) \o Repeat(3, 4) \o Repeat(4, 3) \o Repeat(5, 3)
        \o Repeat(6, 2) \o Repeat(7, 2) \o Repeat(8, 1) \o Repeat(9, 1)
ZeroSample(k) == Repeat(0, k)

SampleSizes == {10, 11, 29, 30}

WashSamples ==
    { UniformSample(k) : k \in SampleSizes } \cup { NinesSample(k) : k \in SampleSizes }
        \cup { ZeroSample(k) : k \in SampleSizes } \cup { BenfordSample, << >> }

UniqueAddressCounts == {0, 1, 2, 5, 6, 50}

\* A call of _detect_wash_trading(transactions, unique_addresses).
DetectWash ==
    /\ ~wash_out.called
    /\ wash_out' = DetectWashTrading(wash_in.transactions, wash_in.unique_addresses)
    /\ UNCHANGED << now, wash_in >>
    /\ UNCHANGED coreVars
    /\ UNCHANGED << trailVars, scoutVars, signalVars >>
    /\ UNCHANGED ioVars
    /\ UNCHANGED execVars

(***************************************************************************)
(* The scorers applied to token data, and ScoutModule.assess_token.        *)
(***************************************************************************)
SecurityReports ==
    [ is_honeypot : BOOLEAN, is_blacklisted : BOOLEAN,
      transfer_pausable : BOOLEAN, is_mintable : BOOLEAN, hidden_owner : BOOLEAN,
      can_take_back_ownership : BOOLEAN, owner_change_balance : BOOLEAN,
      external_call : BOOLEAN ]

\* Values on both sides of every threshold of the scorers.
Concentrations == {25, 30, 31, 40, 41, 50, 51}
LockRatios == {69, 70, 84, 85, 94, 95, 96}
\* << liquidity_depth, volume_24h >>
LiquidityVolumes ==
    { << 9999, 100000 >>, << 10000, 100000 >>, << 49999, 100000 >>, << 50000, 100000 >>,
      << 99999, 100000 >>, << 100000, 200000 >>, << 200000, 100000 >>, << 200000, 0 >> }

ScoredHistories ==
    { [ transactions |-> << >>, unique_addresses |-> 0, wash_trading_detected |-> w ] :
         w \in BOOLEAN }

\* A history whose sizes all lead with 9, not flagged.
NinesHistory ==
    [ transactions |-> NinesSample(30), unique_addresses |-> 30,
      wash_trading_detected |-> FALSE ]

TokenData(c, l, h, lv, r) ==
    [ top_10_concentration |-> c,
      lp_locked_percentage |-> l,
      transaction_history  |-> h,
      liquidity_depth      |-> lv[1],
      volume_24h           |-> lv[2],
      security_report      |-> r ]

\* The additional security flags all clear or all set.
PlainSecurityReports ==
    { r \in SecurityReports :
        \E b \in BOOLEAN :
            /\ r.transfer_pausable = b /\ r.is_mintable = b /\ r.hidden_owner = b
            /\ r.can_take_back_ownership = b /\ r.owner_change_balance = b
            /\ r.external_call = b }

\* Every combination of concentration, lock ratio, wash flag, liquidity and
\* volume under the plain security reports; every security report under
\* the best and the worst of the other fields; and the all-nines history
\* for the scorer that runs the Benford check itself.
Snapshots ==
    { TokenData(c, l, h, lv, r) :
        c \in Concentrations, l \in LockRatios, h \in ScoredHistories,
        lv \in LiquidityVolumes, r \in PlainSecurityReports }
      \cup
    { TokenData(c, l, h, lv, r) :
        c \in {25, 51}, l \in {69, 96}, h \in ScoredHistories,
        lv \in { << 9999, 100000 >>, << 200000, 100000 >> }, r \in SecurityReports }
      \cup
    { TokenData(c, l, NinesHistory, lv, r) :
        c \in {25, 51}, l \in {69, 96},
        lv \in { << 9999, 100000 >>, << 200000, 100000 >> }, r \in SecurityReports }

\* Token data with the keys that trading_bot.py produces: the keys that only
\* trading_bot_enhanced.py knows are at their defaults.
BasicTokenData(td) ==
    /\ ~td.security_report.can_take_back_ownership
    /\ ~td.security_report.owner_change_balance
    /\ ~td.security_report.external_call
    /\ ~td.transaction_history.wash_trading_detected
    /\ td.volume_24h = 100000

\* A call of calculate_viability_score(token_data), trading_bot_enhanced.py.
ScoreToken ==
    /\ viability_score = NoResult
    /\ viability_score' = CalculateViabilityScore(token_data)
    /\ UNCHANGED << now, token_data, basic_score, current_rpc_index >>
    /\ UNCHANGED coreVars
    /\ UNCHANGED << trailVars, washVars, signalVars >>
    /\ UNCHANGED ioVars
    /\ UNCHANGED execVars

\* A call of calculate_viability_score(token_data), trading_bot.py.
BasicScoreToken ==
    /\ basic_score = NoResult
    /\ BasicTokenData(token_data)
    /\ basic_score' = BasicCalculateViabilityScore(token_data)
    /\ UNCHANGED << now, token_data, viability_score, current_rpc_index >>
    /\ UNCHANGED coreVars
    /\ UNCHANGED << trailVars, washVars, signalVars >>
    /\ UNCHANGED ioVars
    /\ UNCHANGED execVars

RECURSIVE DigitRuns(_, _, _)
\* counts[d] transactions of size d * scale for every leading digit from d on
DigitRuns(counts, scale, d) ==
    IF d > 9 THEN << >>
    ELSE Repeat(d * scale, counts[d]) \o DigitRuns(counts, scale, d + 1)

\* _simulate_transaction_history, "HighQuality" branch: 100 sizes whose
\* leading digits are drawn with Benford weights.
HighQualitySample == DigitRuns(<< 30, 18, 12, 10, 8, 7, 6, 5, 4 >>, 100, 1)

\* _simulate_transaction_history, other branch: 80 sizes from
\* randint(1, 50000), spread as uniform draws from that range are (digits 1
\* to 4 lead nine times in ten) or spread as Benford's law expects, and
\* with 15 sizes around one uniform_size appended.
UniformDrawsSample == DigitRuns(<< 18, 18, 17, 17, 2, 2, 2, 2, 2 >>, 100, 1)
BenfordDrawsSample == DigitRuns(<< 24, 14, 10, 8, 6, 5, 5, 4, 4 >>, 100, 1)
PaddedSample == UniformDrawsSample \o Repeat(10000, 15)

AssessedTokens == {"0xTokenA_HighQuality", "0xTokenB_Suspicious"}
IsHighQuality(token_address) == token_address = "0xTokenA_HighQuality"

\* ScoutModule._simulate_transaction_history: the histories it can return
SimulateTransactionHistory(token_address) ==
    LET samples == IF IsHighQuality(token_address)
                   THEN { HighQualitySample }
                   ELSE { UniformDrawsSample, BenfordDrawsSample, PaddedSample }
    IN  { [ transactions |-> t, unique_addresses |-> u, wash_trading_detected |-> FALSE ] :
            t \in samples, u \in {50, 80} }

\* get_security_report: the disqualifying flags are fixed to False; of the
\* random flags, all clear and all set
AssessedSecurityReports ==
    { r \in PlainSecurityReports : ~r.is_honeypot /\ ~r.is_blacklisted }

NumRpcProviders == 3            \* len(rpc_providers)

\* ScoutModule.assess_token: get_onchain_data (with its possible RPC
\* switch), get_security_report, calculate_viability_score.
AssessToken(token_address) ==
    \E rpc_failed \in BOOLEAN, c \in {25, 51}, l \in {84, 96},
       lv \in { << 10000, 100000 >>, << 200000, 100000 >> },
       h \in SimulateTransactionHistory(token_address), r \in AssessedSecurityReports :
        /\ current_rpc_index' = IF rpc_failed
                                 THEN (current_rpc_index + 1) % NumRpcProviders
                                 ELSE current_rpc_index
        /\ token_data' = TokenData(c, l, h, lv, r)
        /\ viability_score' = CalculateViabilityScore(TokenData(c, l, h, lv, r))
        /\ UNCHANGED << now, basic_score >>
        /\ UNCHANGED coreVars
        /\ UNCHANGED << trailVars, washVars, signalVars >>
        /\ UNCHANGED ioVars
        /\ UNCHANGED execVars

(***************************************************************************)
(* enhanced_trading_system.py: EnhancedScoutModule, its scorer             *)
(* calculate_ml_viability_score and _generate_trade_signal.  A feature is  *)
(* in units of 1/10000, a score in units of 1/10000 of a point and a       *)
(* confidence in millionths, so that the weighted sum, score / 100 and     *)
(* score / 100 + 0.1 are computed exactly.  price_change_24h and           *)
(* volatility are in percent, volume_24h and liquidity in USD, prices in   *)
(* 1/10000 USD; draw, in thousandths, is where random.uniform falls in its *)
(* interval.                                                               *)
(***************************************************************************)
FeatureScale == 10000           \* a feature of 1.0
ScoreScale == 10000             \* one point of score

\* EnhancedScoutModule.calculate_ml_viability_score.  The divisions are
\* exact for the snapshots of MlSnapshots.
CalculateMlViabilityScore(td) ==
    LET clamp(x) == Max(0, Min(FeatureScale, x))
        price_momentum == clamp(((td.price_change_24h + 20) * FeatureScale) \div 40)
        volume_score == Min(FeatureScale, td.volume_24h \div (1000000 \div FeatureScale))
        liquidity_score == Min(FeatureScale, td.liquidity \div (5000000 \div FeatureScale))
        holder_score == Min(FeatureScale, (td.holder_count * FeatureScale) \div 10000)
        volatility_score == Max(0, FeatureScale - td.volatility * (FeatureScale \div 100))
        sentiment_raw == (td.price_change_24h * FeatureScale) \div 20 + volume_score \div 2
        market_sentiment == clamp((sentiment_raw + FeatureScale) \div 2)
    IN  \* the weights, in percent; the sum is the score times ScoreScale
        price_momentum * 25 + volume_score * 20 + liquidity_score * 15
          + holder_score * 15 + volatility_score * 10 + market_sentiment * 15

\* Variant: the SELL rule is tested before the volume rule.
GenerateTradeSignalSellFirst(td, score, draw) ==
    LET current_price == td.price_usd
        between(lo, hi) == lo + ((hi - lo) * draw) \div 1000
        signal(signal_type, confidence, price_target, stop_loss) ==
            [ token_address |-> td.address,
              signal_type   |-> signal_type,
              confidence    |-> confidence,
              price_target  |-> price_target,
              stop_loss     |-> stop_loss,
              timestamp     |-> now ]
        buy_on_volume == signal("BUY", Min(850000, score),
                                (current_price * between(1100, 1250)) \div 1000,
                                (current_price * 90) \div 100)
        sell == signal("SELL", Min(900000, 100 * ScoreScale - score),
                       (current_price * 85) \div 100,
                       (current_price * 105) \div 100)
    IN  IF score >= 80 * ScoreScale /\ td.price_change_24h > 5
        THEN signal("BUY", Min(950000, score + 100000),
                    (current_price * between(1150, 1400)) \div 1000,
                    (current_price * 85) \div 100)
        ELSE IF score < 40 * ScoreScale \/ td.price_change_24h < -15
        THEN sell
        ELSE IF score >= 70 * ScoreScale /\ td.volume_24h > 1000000
        THEN buy_on_volume
        ELSE signal("HOLD", 600000, current_price, (current_price * 95) \div 100)

\* Variant: the confidence of the first BUY rule is not capped.
GenerateTradeSignalNoCap(td, score, draw) ==
    LET current_price == td.price_usd
        between(lo, hi) == lo + ((hi - lo) * draw) \div 1000
        signal(signal_type, confidence, price_target, stop_loss) ==
            [ token_address |-> td.address,
              signal_type   |-> signal_type,
              confidence    |-> confidence,
              price_target  |-> price_target,
              stop_loss     |-> stop_loss,
              timestamp     |-> now ]
        buy_on_volume == signal("BUY", Min(850000, score),
                                (current_price * between(1100, 1250)) \div 1000,
                                (current_price * 90) \div 100)
        sell == signal("SELL", Min(900000, 100 * ScoreScale - score),
                       (current_price * 85) \div 100,
                       (current_price * 105) \div 100)
    IN  IF score >= 80 * ScoreScale /\ td.price_change_24h > 5
        THEN signal("BUY", score + 100000,
                    (current_price * between(1150, 1400)) \div 1000,
                    (current_price * 85) \div 100)
        ELSE IF score >= 70 * ScoreScale /\ td.volume_24h > 1000000
        THEN buy_on_volume
        ELSE IF score < 40 * ScoreScale \/ td.price_change_24h < -15
        THEN sell
        ELSE signal("HOLD", 600000, current_price, (current_price * 95) \div 100)

\* EnhancedScoutModule._generate_trade_signal
GenerateTradeSignal(td, score, draw) ==
    LET current_price == td.price_usd
        between(lo, hi) == lo + ((hi - lo) * draw) \div 1000
        signal(signal_type, confidence, price_target, stop_loss) ==
            [ token_address |-> td.address,
              signal_type   |-> signal_type,
              confidence    |-> confidence,
              price_target  |-> price_target,
              stop_loss     |-> stop_loss,
              timestamp     |-> now ]
        buy_on_volume == signal("BUY", Min(850000, score),
                                (current_price * between(1100, 1250)) \div 1000,
                                (current_price * 90) \div 100)
        sell == signal("SELL", Min(900000, 100 * ScoreScale - score),
                       (current_price * 85) \div 100,
                       (current_price * 105) \div 100)
    IN  IF score >= 80 * ScoreScale /\ td.price_change_24h > 5
        THEN signal("BUY", Min(950000, score + 100000),
                    (current_price * between(1150, 1400)) \div 1000,
                    (current_price * 85) \div 100)
        ELSE IF score >= 70 * ScoreScale /\ td.volume_24h > 1000000
        THEN buy_on_volume
        ELSE IF score < 40 * ScoreScale \/ td.price_change_24h < -15
        THEN sell
        ELSE signal("HOLD", 600000, current_price, (current_price * 95) \div 100)

\* Scores on both sides of every threshold, whole points and fractions.
SignalScores ==
    { p * ScoreScale : p \in {0, 39, 40, 69, 70, 79, 80, 100} }
      \cup { 399999, 699999, 799999, 850001, 999999 }
PriceChanges == {-20, -16, -15, -14, 0, 5, 6, 10}
SignalVolumes == {50000, 1000000, 1000001, 2000000}
SignalPrices == {1000, 10000}
Draws == {0, 500, 1000}

\* The snapshots handed to the scorer: every field below, at and above the
\* point where its feature saturates.
MlPriceChanges == PriceChanges \cup {-40, 20, 40}
MlVolumes == SignalVolumes \cup {0}
MlLiquidities == {0, 2500000, 5000000, 10000000}
MlHolderCounts == {0, 5000, 10000, 50000}
MlVolatilities == {0, 40, 100}

MlSnapshots ==
    [ address : {"0xA"}, price_usd : SignalPrices, price_change_24h : MlPriceChanges,
      volume_24h : MlVolumes, liquidity : MlLiquidities, holder_count : MlHolderCounts,
      volatility : MlVolatilities ]

\* The TokenData handed to calculate_ml_viability_score directly: the
\* dataclass takes any number in a field, so also a negative volume,
\* liquidity or volatility and a volatility above 1.
MlTokenData ==
    [ address : {"0xA"}, price_usd : {1000}, price_change_24h : {-40, -20, 0, 20, 40},
      volume_24h : {-1000000, 0, 1000000, 2000000},
      liquidity : {-5000000, 0, 5000000, 10000000},
      holder_count : {0, 10000, 50000},
      volatility : {-50, 0, 40, 100, 150} ]

\* A call of calculate_ml_viability_score(token_data).
ScoreMlToken ==
    /\ viability_score = NoResult
    /\ viability_score' = CalculateMlViabilityScore(token_data)
    /\ UNCHANGED << now, token_data, basic_score, current_rpc_index >>
    /\ UNCHANGED coreVars
    /\ UNCHANGED << trailVars, washVars, signalVars >>
    /\ UNCHANGED ioVars
    /\ UNCHANGED execVars

\* The calls of _generate_trade_signal: any score with a plain snapshot, and
\* the score of calculate_ml_viability_score with any snapshot, as
\* assess_token_comprehensive passes it.
SignalInputs ==
    [ token_data : [ address : {"0xA"}, price_usd : SignalPrices,
                     price_change_24h : PriceChanges, volume_24h : SignalVolumes,
                     liquidity : {2500000}, holder_count : {5000}, volatility : {40} ],
      viability_score : SignalScores ]
      \cup
    { [ token_data |-> td, viability_score |-> CalculateMlViabilityScore(td) ] :
        td \in MlSnapshots }

\* A call of _generate_trade_signal(token_data, viability_score).
GenerateSignal ==
    /\ trade_signal = NoSignal
    /\ \E draw \in Draws :
          trade_signal' = GenerateTradeSignal(signal_in.token_data,
                                              signal_in.viability_score, draw)
    /\ UNCHANGED << now, signal_in >>
    /\ UNCHANGED coreVars
    /\ UNCHANGED << trailVars, scoutVars, washVars >>
    /\ UNCHANGED ioVars
    /\ UNCHANGED execVars

(***************************************************************************)
(* enhanced_trading_system.py: RealTimeExecutorModule.  One coroutine of   *)
(* execute_trade_with_monitoring at a time (run_enhanced_cycle is awaited  *)
(* by its caller) beside the one monitor task that start_system creates;   *)
(* the coroutines interleave at their awaits only.  active_positions is    *)
(* the dict as a sequence of entries in insertion order.  Prices are in    *)
(* cents, a price of 0 stands for no price, pnl and slippage are in 1/10000 *)
(* rounded down.                                                           *)
(***************************************************************************)
MaxHistory == 2                 \* no trade starts once the history is this long
MaxExecTime == 1                \* the clock of the executor stops here

Prices == {0, 90, 100, 120}

TradeSignals ==
    { [ token_address |-> a, signal_type |-> "BUY", price_target |-> 110, stop_loss |-> 95 ] :
        a \in TokenAddresses }
      \cup
    { [ token_address |-> a, signal_type |-> "SELL", price_target |-> 100, stop_loss |-> 105 ] :
        a \in TokenAddresses }

TradeAmount == 1000             \* trade_amount = 1000

\* token_address in positions
HasPosition(positions, token_address) ==
    \E i \in 1..Len(positions) : positions[i].token_address = token_address

\* positions[token_address]
PositionOf(positions, token_address) ==
    LET i == CHOOSE k \in 1..Len(positions) : positions[k].token_address = token_address
    IN  positions[i].position

\* positions[token_address] = position
SetPosition(positions, token_address, position) ==
    LET entry == [ token_address |-> token_address, position |-> position ]
    IN  IF HasPosition(positions, token_address)
        THEN [ i \in 1..Len(positions) |->
                 IF positions[i].token_address = token_address THEN entry ELSE positions[i] ]
        ELSE Append(positions, entry)

SameAddress(entry, token_address) == entry.token_address = token_address

\* del positions[token_address]
DelPosition(positions, token_address) ==
    LET keep(entry) == ~SameAddress(entry, token_address)
    IN  SelectSeq(positions, keep)

\* Variant: the exit is recorded but the entry stays in active_positions.
ClosePositionKeepsEntry(positions, history, token_address, exit_price, reason, t) ==
    IF ~HasPosition(positions, token_address)
    THEN [ active_positions |-> positions, execution_history |-> history ]
    ELSE LET position == PositionOf(positions, token_address)
             entry_price == position.entry_price
             exit_record ==
                 [ timestamp     |-> t,
                   token_address |-> token_address,
                   entry_price   |-> entry_price,
                   exit_price    |-> exit_price,
                   pnl           |-> ((exit_price - entry_price) * 10000) \div entry_price,
                   reason        |-> reason,
                   hold_time     |-> t - position.entry_time ]
         IN  [ active_positions  |-> positions,
               execution_history |-> Append(history, exit_record) ]

\* RealTimeExecutorModule._close_position: the dict and the history it leaves
ClosePosition(positions, history, token_address, exit_price, reason, t) ==
    IF ~HasPosition(positions, token_address)
    THEN [ active_positions |-> positions, execution_history |-> history ]
    ELSE LET position == PositionOf(positions, token_address)
             entry_price == position.entry_price
             exit_record ==
                 [ timestamp     |-> t,
                   token_address |-> token_address,
                   entry_price   |-> entry_price,
                   exit_price    |-> exit_price,
                   pnl           |-> ((exit_price - entry_price) * 10000) \div entry_price,
                   reason        |-> reason,
                   hold_time     |-> t - position.entry_time ]
         IN  [ active_positions  |-> DelPosition(positions, token_address),
               execution_history |-> Append(history, exit_record) ]

\* execute_trade_with_monitoring up to its first await, the price request.
StartTrade(trade_signal_arg) ==
    /\ trade.pc = "none"
    /\ Len(execution_history) < MaxHistory
    /\ trade' = [ pc |-> "awaiting_price", signal |-> trade_signal_arg, amount |-> TradeAmount ]
    /\ UNCHANGED << now, active_positions, execution_history, monitor,
                    pos_id, next_id, closed, staleEval >>
    /\ UNCHANGED coreVars
    /\ UNCHANGED pureVars

\* execute_trade_with_monitoring from the price to its second await, the
\* simulated execution delay: no price or too much slippage returns False.
TradePrice(current_price) ==
    LET signal == trade.signal
        expected_price == IF signal.signal_type = "SELL"
                          THEN signal.price_target ELSE current_price
        too_high == 100 * Abs(current_price - expected_price) > 2 * expected_price
    IN  /\ trade.pc = "awaiting_price"
        /\ trade' = IF current_price = 0 \/ too_high
                     THEN NoTrade
                     ELSE [ pc            |-> "executing",
                            signal        |-> signal,
                            amount        |-> trade.amount,
                            current_price |-> current_price,
                            slippage      |-> (Abs(current_price - expected_price) * 10000)
                                                 \div expected_price ]
        /\ UNCHANGED << now, active_positions, execution_history, monitor,
                        pos_id, next_id, closed, staleEval >>
        /\ UNCHANGED coreVars
        /\ UNCHANGED pureVars

\* execute_trade_with_monitoring after the delay: the execution is recorded
\* and a BUY opens (or overwrites) the position of its address.
TradeCompletes ==
    LET signal == trade.signal
        execution_record ==
            [ timestamp       |-> now,
              token_address   |-> signal.token_address,
              signal_type     |-> signal.signal_type,
              amount          |-> trade.amount,
              execution_price |-> trade.current_price,
              target_price    |-> signal.price_target,
              stop_loss       |-> signal.stop_loss,
              slippage        |-> trade.slippage ]
        position ==
            [ entry_price  |-> trade.current_price,
              amount       |-> trade.amount,
              target_price |-> signal.price_target,
              stop_loss    |-> signal.stop_loss,
              entry_time   |-> now ]
        buy == signal.signal_type = "BUY"
    IN  /\ trade.pc = "executing"
        /\ execution_history' = Append(execution_history, execution_record)
        /\ active_positions' = IF buy
                                THEN SetPosition(active_positions, signal.token_address, position)
                                ELSE active_positions
        /\ trade' = NoTrade
        /\ next_id' = IF buy THEN next_id + 1 ELSE next_id
        /\ pos_id' = IF buy THEN [pos_id EXCEPT ![signal.token_address] = next_id + 1]
                      ELSE pos_id
        /\ UNCHANGED << now, monitor, closed, staleEval >>
        /\ UNCHANGED coreVars
        /\ UNCHANGED pureVars

\* list(self.active_positions.items()), each item with the identity of the
\* position it holds
SnapshotItems ==
    [ i \in 1..Len(active_positions) |->
        [ token_address |-> active_positions[i].token_address,
          position      |-> active_positions[i].position,
          id            |-> pos_id[active_positions[i].token_address] ] ]

\* The ids in a sequence of ids.
IdsOf(ids) == { ids[i] : i \in 1..Len(ids) }

\* monitor_active_positions after its sleep: the for loop starts over a
\* snapshot of the positions and requests the price of the first one.
MonitorWakes ==
    /\ monitor.pc = "sleeping"
    /\ active_positions # << >>
    /\ monitor' = [ pc |-> "awaiting_price", items |-> SnapshotItems ]
    /\ UNCHANGED << now, active_positions, execution_history, trade,
                    pos_id, next_id, closed, staleEval >>
    /\ UNCHANGED coreVars
    /\ UNCHANGED pureVars

\* monitor_active_positions, one iteration of the for loop from the price
\* on: the item of the snapshot is evaluated and its address closed when
\* the target or the stop loss is reached; then the next price is
\* requested or, after the last item, the task sleeps.
MonitorPrice(current_price) ==
    LET item          == Head(monitor.items)
        token_address == item.token_address
        target_price  == item.position.target_price
        stop_loss     == item.position.stop_loss
        reason        == IF current_price >= target_price THEN "TARGET_REACHED"
                         ELSE IF current_price <= stop_loss THEN "STOP_LOSS"
                         ELSE "NONE"
        closes        == current_price # 0 /\ reason # "NONE"
        after         == ClosePosition(active_positions, execution_history,
                                       token_address, current_price, reason, now)
        removed       == closes /\ HasPosition(active_positions, token_address)
        rest          == Tail(monitor.items)
    IN  /\ monitor.pc = "awaiting_price"
        /\ active_positions' = IF closes THEN after.active_positions ELSE active_positions
        /\ execution_history' = IF closes THEN after.execution_history ELSE execution_history
        /\ monitor' = IF rest = << >>
                       THEN [ pc |-> "sleeping", items |-> << >> ]
                       ELSE [ pc |-> "awaiting_price", items |-> rest ]
        /\ closed' = IF removed THEN Append(closed, pos_id[token_address]) ELSE closed
        /\ pos_id' = IF removed THEN [pos_id EXCEPT ![token_address] = 0] ELSE pos_id
        /\ staleEval' = (staleEval \/ (current_price # 0 /\ item.id \in IdsOf(closed)))
        /\ UNCHANGED << now, trade, next_id >>
        /\ UNCHANGED coreVars
        /\ UNCHANGED pureVars

\* The clock of the executor advances.
ExecTimePasses ==
    /\ now < MaxExecTime
    /\ now' = now + 1
    /\ UNCHANGED execVars
    /\ UNCHANGED coreVars
    /\ UNCHANGED pureVars

(***************************************************************************)
(* error_handling.py: with_retry and resilient_database_operation.  A call *)
(* of a wrapped function is followed attempt by attempt.  Delays are in    *)
(* milliseconds; draw, in thousandths, is what random.random() returns.    *)
(***************************************************************************)
MaxAttempts == 3                \* max_attempts is drawn from 0..MaxAttempts
MaxTrackedErrors == 6           \* no attempt is made once the tracker holds this many

\* RetryConfig(max_attempts, jitter=jitter): the other fields at their defaults
RetryConfig(max_attempts, jitter) ==
    [ max_attempts     |-> max_attempts,
      base_delay       |-> 1000,
      max_delay        |-> 60000,
      exponential_base |-> 2,
      jitter           |-> jitter ]

\* RetryConfig(max_attempts=3, base_delay=1.0) on resilient_database_operation
DatabaseRetryConfig == RetryConfig(3, TRUE)

RandomDraws == {0, 500, 998}

RECURSIVE Pow(_, _)
Pow(b, n) == IF n = 0 THEN 1 ELSE b * Pow(b, n - 1)

\* with_retry, lines 112-120: the delay slept after the failed `attempt`
RetryDelay(config, attempt, draw) ==
    LET delay == Min(config.base_delay * Pow(config.exponential_base, attempt),
                     config.max_delay)
    IN  IF config.jitter
        THEN (delay * (500 + draw \div 2)) \div 1000
        ELSE delay

\* with_retry.wrapper up to the first pass of the for loop; with no pass at
\* all, `raise last_exception` raises None, a TypeError.
NewRetry(func, config) ==
    [ pc             |-> IF config.max_attempts <= 0 THEN "raised" ELSE "attempting",
      func           |-> func,
      config         |-> config,
      attempt        |-> 0,
      invocations    |-> 0,
      delays         |-> << >>,
      last_exception |-> "None",
      outcomes       |-> << >>,
      raises         |-> IF config.max_attempts <= 0 THEN "TypeError" ELSE "None" ]

\* Variant: the last attempt is followed by a sleep and one more attempt.
RetryAfterAttemptOneMore(r, raised, draw) ==
    LET invoked == [r EXCEPT !.invocations = @ + 1,
                             !.outcomes = Append(@, raised)]
    IN  IF raised = "ok"
        THEN [invoked EXCEPT !.pc = "returned"]
        ELSE LET failed == [invoked EXCEPT !.last_exception = raised]
             IN  IF r.attempt = r.config.max_attempts
                 THEN [failed EXCEPT !.pc = "raised", !.raises = raised]
                 ELSE [failed EXCEPT !.pc = "sleeping",
                                     !.delays = Append(@, RetryDelay(r.config, r.attempt, draw))]

\* with_retry.wrapper, one pass of the for loop: func is invoked and does
\* `raised` ("ok": it returns).  outcomes lists what func did, call by call.
RetryAfterAttempt(r, raised, draw) ==
    LET invoked == [r EXCEPT !.invocations = @ + 1,
                             !.outcomes = Append(@, raised)]
    IN  IF raised = "ok"
        THEN [invoked EXCEPT !.pc = "returned"]
        ELSE LET failed == [invoked EXCEPT !.last_exception = raised]
             IN  IF r.attempt = r.config.max_attempts - 1
                 THEN [failed EXCEPT !.pc = "raised", !.raises = raised]
                 ELSE [failed EXCEPT !.pc = "sleeping",
                                     !.delays = Append(@, RetryDelay(r.config, r.attempt, draw))]

\* What a function may raise: the classes handle_api_errors tells apart and
\* one it does not (KeyError).
ExceptionKinds == {"ConnectionError", "TimeoutError", "ValueError", "KeyError"}
FuncOutcomes == {"ok"} \cup ExceptionKinds
\* What the database operation does: the two failures that ask for a retry.
OperationOutcomes == {"ok", "ConnectionError", "TimeoutError"}

\* A function decorated with with_retry(config) is called.
RetryCall(config) ==
    /\ retry.pc = "idle"
    /\ retry' = NewRetry("func", config)
    /\ UNCHANGED now
    /\ UNCHANGED coreVars
    /\ UNCHANGED << trailVars, scoutVars, washVars, signalVars >>
    /\ UNCHANGED << fetchVars, cycleVars, trackVars, botVars >>
    /\ UNCHANGED execVars

\* The wrapper invokes the decorated function, which does `raised`.
FuncAttempt(raised, draw) ==
    /\ retry.pc = "attempting"
    /\ retry.func = "func"
    /\ retry' = RetryAfterAttempt(retry, raised, draw)
    /\ UNCHANGED now
    /\ UNCHANGED coreVars
    /\ UNCHANGED << trailVars, scoutVars, washVars, signalVars >>
    /\ UNCHANGED << fetchVars, cycleVars, trackVars, botVars >>
    /\ UNCHANGED execVars

\* time.sleep(delay) returns and the for loop goes to the next attempt.
RetryWakes ==
    /\ retry.pc = "sleeping"
    /\ retry' = [retry EXCEPT !.pc = "attempting", !.attempt = @ + 1]
    /\ UNCHANGED now
    /\ UNCHANGED coreVars
    /\ UNCHANGED << trailVars, scoutVars, washVars, signalVars >>
    /\ UNCHANGED << fetchVars, cycleVars, trackVars, botVars >>
    /\ UNCHANGED execVars

\* handle_api_errors.wrapper: what it raises to its caller when the wrapped
\* function did `raised`.  Every branch of its try statement returns.
HandleApiErrorsRaises(raised) == "ok"

\* Variant: the operation is called whatever the state of the breaker.
DatabaseOperationUnguarded(operation_outcome) ==
    LET b  == GetCircuitBreaker("database")
        b1 == AfterGate(b, now)
    IN  [ invoked          |-> TRUE,
          raised           |-> operation_outcome,
          circuit_breakers |->
              [circuit_breakers EXCEPT
                 !["database"] = IF operation_outcome = "ok"
                                 THEN OnSuccess(b1) ELSE OnFailure(b1, now)],
          error_tracker    |->
              IF operation_outcome = "ok"
              THEN error_tracker
              ELSE RecordError(error_tracker, operation_outcome,
                               "resilient_database_operation", now) ]

\* resilient_database_operation under track_errors, where operation does
\* `operation_outcome`: whether operation was invoked, what is raised to
\* handle_api_errors, and the registry and the tracker it leaves.
DatabaseOperation(operation_outcome) ==
    LET b        == GetCircuitBreaker("database")
        b1       == AfterGate(b, now)
        rejected == Rejects(b, now)
        raised   == IF rejected THEN "CircuitBreakerOpenError" ELSE operation_outcome
    IN  [ invoked          |-> ~rejected,
          raised           |-> raised,
          circuit_breakers |->
              IF rejected
              THEN circuit_breakers
              ELSE [circuit_breakers EXCEPT
                      !["database"] = IF operation_outcome = "ok"
                                      THEN OnSuccess(b1) ELSE OnFailure(b1, now)],
          error_tracker    |->
              IF raised = "ok"
              THEN error_tracker
              ELSE RecordError(error_tracker, raised,
                               "resilient_database_operation", now) ]

\* resilient_database_operation(operation) is called, for the first time or
\* after its previous call has ended.
ResilientCall ==
    /\ \/ retry.pc = "idle"
       \/ /\ retry.pc \in {"returned", "raised"}
          /\ retry.func = "resilient_database_operation"
    /\ retry' = NewRetry("resilient_database_operation", DatabaseRetryConfig)
    /\ UNCHANGED now
    /\ UNCHANGED coreVars
    /\ UNCHANGED << trailVars, scoutVars, washVars, signalVars >>
    /\ UNCHANGED << fetchVars, cycleVars, trackVars, botVars >>
    /\ UNCHANGED execVars

\* The retry wrapper invokes the function under it, handle_api_errors over
\* track_errors over the breaker-guarded call of operation.  retry.outcomes
\* keeps, per attempt, whether operation was invoked and what came out of
\* track_errors.
ResilientAttempt(operation_outcome, draw) ==
    LET done == DatabaseOperation(operation_outcome)
        r    == RetryAfterAttempt(retry, HandleApiErrorsRaises(done.raised), draw)
    IN  /\ retry.pc = "attempting"
        /\ retry.func = "resilient_database_operation"
        /\ Len(error_tracker) < MaxTrackedErrors
        /\ circuit_breakers' = done.circuit_breakers
        /\ error_tracker' = done.error_tracker
        /\ lastResult' = HandleApiErrors(done.raised)
        /\ retry' = [ r EXCEPT !.outcomes = Append(retry.outcomes,
                                    [ invoked |-> done.invoked, raised |-> done.raised,
                                      breaker |-> GetCircuitBreaker("database"),
                                      at |-> now ]) ]
        /\ UNCHANGED now
        /\ UNCHANGED cbVars
        /\ UNCHANGED exitVars
        /\ UNCHANGED << trailVars, scoutVars, washVars, signalVars >>
        /\ UNCHANGED << fetchVars, cycleVars, trackVars, botVars >>
        /\ UNCHANGED execVars

(***************************************************************************)
(* enhanced_trading_system.py: EnhancedScoutModule.get_aggregated_token_data *)
(* and the best-first price lookups (_get_real_time_price, and             *)
(* DataAggregator.get_token_price of data_integration_module.py).  The     *)
(* coroutines of several callers interleave at their provider awaits.  A   *)
(* provider answers with data, with nothing or by raising.  A TokenData    *)
(* has no symbol, name or market_cap here; price_usd is in cents,          *)
(* volatility in percent, and a mean is rounded down to the unit.  The     *)
(* clock is in seconds.                                                    *)
(***************************************************************************)
NumProviders == 2               \* len(data_providers)
NumFetchers == 2                \* callers whose fetches may overlap
FetchClockStep == 20            \* seconds per step of the clock of the fetches
MaxFetchTime == 40              \* that clock stops here

Fetchers == 1..NumFetchers
CacheTtl == 30                  \* cache_ttl = 30

NoEntry == [ cached |-> FALSE ]
NoFetch == [ pc |-> "idle" ]
NoLookup == [ pc |-> "idle" ]
NoData == [ none |-> TRUE ]      \* None

\* MockDataProvider.__init__ / DataProvider.__init__, and whether the class
\* has a get_token_price method: of the aggregator's providers the first,
\* BitqueryProvider, has none
NewProvider(has_get_token_price) ==
    [ is_connected |-> FALSE, has_get_token_price |-> has_get_token_price ]

\* What an awaited get_token_data does: it raises, returns None, or returns
\* a TokenData.
ProviderAnswers == {"raise", "none", "data"}

\* The TokenData that provider k returns at time t: each provider quotes
\* its own price; the providers at odd positions report a rising, liquid
\* token and the others a falling, thin one.
ProviderData(token_address, k, t) ==
    LET rising == k % 2 = 1
    IN  [ address          |-> token_address,
          price_usd        |-> 100 * k,
          volume_24h       |-> IF rising THEN 2000000 ELSE 100000,
          liquidity        |-> IF rising THEN 10000000 ELSE 500000,
          holder_count     |-> IF rising THEN 10000 ELSE 1001,
          price_change_24h |-> IF rising THEN 10 ELSE -20,
          volatility       |-> IF rising THEN 20 ELSE 80,
          timestamp        |-> t ]

RECURSIVE SumField(_, _)
SumField(seq, field) ==
    IF seq = << >> THEN 0 ELSE Head(seq)[field] + SumField(Tail(seq), field)

RECURSIVE MinTimestamp(_)
MinTimestamp(seq) ==
    IF Len(seq) = 1 THEN seq[1].timestamp
    ELSE Min(seq[1].timestamp, MinTimestamp(Tail(seq)))

\* get_aggregated_token_data, lines 139-151: the merged TokenData
Aggregate(token_address, provider_data, t) ==
    LET mean(field) == SumField(provider_data, field) \div Len(provider_data)
    IN  [ address          |-> token_address,
          price_usd        |-> mean("price_usd"),
          volume_24h       |-> mean("volume_24h"),
          liquidity        |-> mean("liquidity"),
          holder_count     |-> mean("holder_count"),
          price_change_24h |-> mean("price_change_24h"),
          volatility       |-> mean("volatility"),
          timestamp        |-> t ]

\* Variant: the cache is never consulted.
CacheHitNever(cache, token_address, t) ==
    FALSE

\* get_aggregated_token_data, lines 118-122: the entry of the address is
\* there and younger than cache_ttl
CacheHit(cache, token_address, t) ==
    /\ cache[token_address].cached
    /\ t - cache[token_address].timestamp < CacheTtl

\* `if provider.is_connected` (and, in get_token_price, hasattr)
Usable(provider, kind) ==
    /\ provider.is_connected
    /\ kind = "get_token_price" => provider.has_get_token_price

\* Variant: the loop does not look at is_connected.
NextUsableUnchecked(providers, kind, i) ==
    IF i <= Len(providers) THEN i ELSE 0

\* `for provider in self.data_providers: if provider.is_connected:` resumed
\* at position i: the position of the provider called next, 0 when the
\* loop ends.
NextUsable(providers, kind, i) ==
    LET usable == { k \in i..Len(providers) : Usable(providers[k], kind) }
    IN  IF usable = {} THEN 0
        ELSE CHOOSE k \in usable : \A j \in usable : k <= j

\* Variant: a fetch that got no data evicts the entry of its address.
AggregatedLoopEvicts(f, i, t) ==
    LET k == NextUsable(data_providers, "get_token_data", i)
        aggregated == Aggregate(f.token_address, f.provider_data, t)
    IN  IF k # 0
        THEN [ fetch        |-> [f EXCEPT !.pc = "awaiting", !.provider = k,
                                          !.calls = Append(@, k)],
               token_cache  |-> token_cache,
               cache_oldest |-> cache_oldest ]
        ELSE IF f.provider_data = << >>
        THEN [ fetch        |-> [f EXCEPT !.pc = "done", !.result = NoData,
                                          !.returned_at = t],
               token_cache  |-> [token_cache EXCEPT ![f.token_address] = NoEntry],
               cache_oldest |-> cache_oldest ]
        ELSE [ fetch        |-> [f EXCEPT !.pc = "done", !.result = aggregated,
                                          !.returned_at = t,
                                          !.oldest = MinTimestamp(f.provider_data)],
               token_cache  |-> [token_cache EXCEPT ![f.token_address] =
                                    [ cached |-> TRUE, data |-> aggregated, timestamp |-> t ]],
               cache_oldest |-> [cache_oldest EXCEPT ![f.token_address] =
                                    MinTimestamp(f.provider_data)] ]

\* get_aggregated_token_data from position i of its for loop up to the next
\* await or to its return: the coroutine, the cache and its history.
AggregatedLoop(f, i, t) ==
    LET k == NextUsable(data_providers, "get_token_data", i)
        aggregated == Aggregate(f.token_address, f.provider_data, t)
    IN  IF k # 0
        THEN [ fetch        |-> [f EXCEPT !.pc = "awaiting", !.provider = k,
                                          !.calls = Append(@, k)],
               token_cache  |-> token_cache,
               cache_oldest |-> cache_oldest ]
        ELSE IF f.provider_data = << >>
        THEN [ fetch        |-> [f EXCEPT !.pc = "done", !.result = NoData,
                                          !.returned_at = t],
               token_cache  |-> token_cache,
               cache_oldest |-> cache_oldest ]
        ELSE [ fetch        |-> [f EXCEPT !.pc = "done", !.result = aggregated,
                                          !.returned_at = t,
                                          !.oldest = MinTimestamp(f.provider_data)],
               token_cache  |-> [token_cache EXCEPT ![f.token_address] =
                                    [ cached |-> TRUE, data |-> aggregated, timestamp |-> t ]],
               cache_oldest |-> [cache_oldest EXCEPT ![f.token_address] =
                                    MinTimestamp(f.provider_data)] ]

\* The coroutine of a call that has just been made.  calls and responses
\* list the providers called and what each did; oldest is the timestamp of
\* the oldest provider data in the result.
NewFetch(token_address) ==
    [ pc            |-> "started",
      token_address |-> token_address,
      provider      |-> 0,
      provider_data |-> << >>,
      calls         |-> << >>,
      responses     |-> << >>,
      cache_hit     |-> FALSE,
      result        |-> NoData,
      returned_at   |-> NoTime,
      oldest        |-> NoTime ]

\* get_aggregated_token_data(token_address) from its call: the cached data
\* on a hit, else the loop from its start.
GetAggregatedTokenData(token_address, t) ==
    LET f == NewFetch(token_address)
    IN  IF CacheHit(token_cache, token_address, t)
        THEN [ fetch        |-> [f EXCEPT !.pc = "done", !.cache_hit = TRUE,
                                          !.result = token_cache[token_address].data,
                                          !.returned_at = t,
                                          !.oldest = cache_oldest[token_address]],
               token_cache  |-> token_cache,
               cache_oldest |-> cache_oldest ]
        ELSE AggregatedLoop(f, 1, t)

\* Variant: a provider that raises discards what the earlier ones returned.
AfterResponseDropsOnError(f, answer, t) ==
    IF answer = "raise"
    THEN [f EXCEPT !.responses = Append(@, "raise"), !.provider_data = << >>]
    ELSE IF answer = "none"
    THEN [f EXCEPT !.responses = Append(@, "none")]
    ELSE [f EXCEPT !.responses = Append(@, "data"),
                   !.provider_data = Append(@, ProviderData(f.token_address, f.provider, t))]

\* get_aggregated_token_data, lines 128-133: the awaited provider answers
AfterResponse(f, answer, t) ==
    IF answer = "raise"
    THEN [f EXCEPT !.responses = Append(@, "raise")]
    ELSE IF answer = "none"
    THEN [f EXCEPT !.responses = Append(@, "none")]
    ELSE [f EXCEPT !.responses = Append(@, "data"),
                   !.provider_data = Append(@, ProviderData(f.token_address, f.provider, t))]

\* get_aggregated_token_data(token_address) is called and runs to its
\* return on a cache hit, else to its first await or, with no provider
\* connected, to its return.
BeginFetch(c, token_address) ==
    LET next == GetAggregatedTokenData(token_address, now)
    IN  /\ fetch[c].pc = "idle"
        /\ fetch' = [fetch EXCEPT ![c] = next.fetch]
        /\ token_cache' = next.token_cache
        /\ cache_oldest' = next.cache_oldest
        /\ UNCHANGED << now, data_providers, lookup >>
        /\ UNCHANGED coreVars
        /\ UNCHANGED << trailVars, scoutVars, washVars, signalVars >>
        /\ UNCHANGED << retryVars, cycleVars, trackVars, botVars >>
        /\ UNCHANGED execVars

\* The provider a caller awaits answers; the for loop goes on to the next
\* await or to the aggregation, the cache write and the return.
ProviderResponds(c, answer) ==
    LET f    == AfterResponse(fetch[c], answer, now)
        next == AggregatedLoop(f, fetch[c].provider + 1, now)
    IN  /\ fetch[c].pc = "awaiting"
        /\ fetch' = [fetch EXCEPT ![c] = next.fetch]
        /\ token_cache' = next.token_cache
        /\ cache_oldest' = next.cache_oldest
        /\ UNCHANGED << now, data_providers, lookup >>
        /\ UNCHANGED coreVars
        /\ UNCHANGED << trailVars, scoutVars, washVars, signalVars >>
        /\ UNCHANGED << retryVars, cycleVars, trackVars, botVars >>
        /\ UNCHANGED execVars

\* provider.connect() has completed.
ProviderConnects(p) ==
    /\ ~data_providers[p].is_connected
    /\ data_providers' = [data_providers EXCEPT ![p].is_connected = TRUE]
    /\ UNCHANGED << now, token_cache, cache_oldest, fetch, lookup >>
    /\ UNCHANGED coreVars
    /\ UNCHANGED << trailVars, scoutVars, washVars, signalVars >>
    /\ UNCHANGED << retryVars, cycleVars, trackVars, botVars >>
    /\ UNCHANGED execVars

\* provider.disconnect()
ProviderDisconnects(p) ==
    /\ data_providers[p].is_connected
    /\ data_providers' = [data_providers EXCEPT ![p].is_connected = FALSE]
    /\ UNCHANGED << now, token_cache, cache_oldest, fetch, lookup >>
    /\ UNCHANGED coreVars
    /\ UNCHANGED << trailVars, scoutVars, washVars, signalVars >>
    /\ UNCHANGED << retryVars, cycleVars, trackVars, botVars >>
    /\ UNCHANGED execVars

\* What an awaited get_real_time_price / get_token_price does: it raises,
\* returns None, returns 0.0 (which `if price:` takes for nothing), or
\* returns a price.
PriceAnswers == {"raise", "none", "zero", "price"}

\* The price provider k returns.
ProviderPrice(k) == 100 * k

\* The coroutine of a price lookup that has just been called.
NewLookup(kind) ==
    [ pc        |-> "started",
      kind      |-> kind,
      provider  |-> 0,
      calls     |-> << >>,
      responses |-> << >>,
      result    |-> NoData ]

\* The for loop of a price lookup from position i up to the next await or
\* to `return None`.
LookupLoop(l, i) ==
    LET k == NextUsable(data_providers, l.kind, i)
    IN  IF k # 0
        THEN [l EXCEPT !.pc = "awaiting", !.provider = k, !.calls = Append(@, k)]
        ELSE [l EXCEPT !.pc = "done", !.result = NoData]

\* _get_real_time_price(token_address) or DataAggregator.get_token_price(
\* token_address) is called and runs to its first await or, with no usable
\* provider, to its return.
BeginLookup(kind) ==
    /\ lookup.pc \in {"idle", "done"}
    /\ lookup' = LookupLoop(NewLookup(kind), 1)
    /\ UNCHANGED << now, data_providers, token_cache, cache_oldest, fetch >>
    /\ UNCHANGED coreVars
    /\ UNCHANGED << trailVars, scoutVars, washVars, signalVars >>
    /\ UNCHANGED << retryVars, cycleVars, trackVars, botVars >>
    /\ UNCHANGED execVars

\* The awaited provider answers: a truthy price is returned at once, anything
\* else sends the loop on to the next provider.
LookupResponds(answer) ==
    LET l == [lookup EXCEPT !.responses = Append(@, answer)]
    IN  /\ lookup.pc = "awaiting"
        /\ lookup' = IF answer = "price"
                      THEN [l EXCEPT !.pc = "done",
                                     !.result = [ price |-> ProviderPrice(lookup.provider) ]]
                      ELSE LookupLoop(l, lookup.provider + 1)
        /\ UNCHANGED << now, data_providers, token_cache, cache_oldest, fetch >>
        /\ UNCHANGED coreVars
        /\ UNCHANGED << trailVars, scoutVars, washVars, signalVars >>
        /\ UNCHANGED << retryVars, cycleVars, trackVars, botVars >>
        /\ UNCHANGED execVars

\* The clock of the fetches advances.
FetchTimePasses ==
    /\ now < MaxFetchTime
    /\ now' = now + FetchClockStep
    /\ UNCHANGED fetchVars
    /\ UNCHANGED coreVars
    /\ UNCHANGED << trailVars, scoutVars, washVars, signalVars >>
    /\ UNCHANGED << retryVars, cycleVars, trackVars, botVars >>
    /\ UNCHANGED execVars

(***************************************************************************)
(* enhanced_trading_system.py: EnhancedTradingSystem.  run_enhanced_cycle  *)
(* is followed from its call through the awaits of its assessment (the     *)
(* first caller's get_aggregated_token_data) to the await of               *)
(* execute_trade_with_monitoring, whose steps are the executor's.  A       *)
(* computation on the aggregated data may raise (a TokenData with a field  *)
(* that is None makes the scorer raise TypeError).                         *)
(***************************************************************************)
NoCycle == [ pc |-> "idle" ]

Computations == {"ok", "TypeError"}

\* What random.uniform draws for the price target of a cycle's signal, in
\* thousandths of its range.
CycleDraws == {500}

\* The cycle that has just been called.  raised is the exception raised
\* inside it and escaped whether it reached the caller.
NewCycle(token_address) ==
    [ pc            |-> "assessing",
      token_address |-> token_address,
      assessment    |-> NoData,
      outcome       |-> "none",
      raised        |-> "none",
      escaped       |-> FALSE ]

\* assess_token_comprehensive after its await of get_aggregated_token_data
AssessTokenComprehensive(result, draw) ==
    IF result = NoData
    THEN [ viability_score |-> 0, token_data |-> NoData, trade_signal |-> NoSignal ]
    ELSE LET ml_score == CalculateMlViabilityScore(result)
         IN  [ viability_score |-> ml_score,
               token_data      |-> result,
               trade_signal    |-> GenerateTradeSignal(result, ml_score, draw) ]

\* Variant: the body of the cycle is not inside `try`.
RunEnhancedCycleNoExcept(c, result, computation, draw) ==
    LET assessment == AssessTokenComprehensive(result, draw)
        signal     == assessment.trade_signal
    IN  IF result # NoData /\ computation # "ok"
        THEN [ cycle |-> [c EXCEPT !.pc = "done", !.outcome = "error",
                                   !.raised = computation, !.escaped = TRUE],
               trade |-> NoTrade ]
        ELSE IF assessment.viability_score < 60 * ScoreScale
        THEN [ cycle |-> [c EXCEPT !.pc = "done", !.outcome = "rejected",
                                   !.assessment = assessment],
               trade |-> NoTrade ]
        ELSE IF signal.signal_type = "BUY" /\ signal.confidence > 700000
        THEN [ cycle |-> [c EXCEPT !.pc = "executing", !.outcome = "trade",
                                   !.assessment = assessment],
               trade |-> [ pc |-> "awaiting_price", signal |-> signal,
                           amount |-> TradeAmount ] ]
        ELSE [ cycle |-> [c EXCEPT !.pc = "done", !.outcome = "no_trade",
                                   !.assessment = assessment],
               trade |-> NoTrade ]

\* run_enhanced_cycle from the return of get_aggregated_token_data to the
\* await of execute_trade_with_monitoring or to its return: the cycle and
\* the executor's coroutine.  An exception of the computation is caught by
\* `except Exception` and logged.
RunEnhancedCycle(c, result, computation, draw) ==
    LET assessment == AssessTokenComprehensive(result, draw)
        signal     == assessment.trade_signal
    IN  IF result # NoData /\ computation # "ok"
        THEN [ cycle |-> [c EXCEPT !.pc = "done", !.outcome = "error",
                                   !.raised = computation, !.escaped = FALSE],
               trade |-> NoTrade ]
        ELSE IF assessment.viability_score < 60 * ScoreScale
        THEN [ cycle |-> [c EXCEPT !.pc = "done", !.outcome = "rejected",
                                   !.assessment = assessment],
               trade |-> NoTrade ]
        ELSE IF signal.signal_type = "BUY" /\ signal.confidence > 700000
        THEN [ cycle |-> [c EXCEPT !.pc = "executing", !.outcome = "trade",
                                   !.assessment = assessment],
               trade |-> [ pc |-> "awaiting_price", signal |-> signal,
                           amount |-> TradeAmount ] ]
        ELSE [ cycle |-> [c EXCEPT !.pc = "done", !.outcome = "no_trade",
                                   !.assessment = assessment],
               trade |-> NoTrade ]

\* start_system: every provider is connected, then is_running is set.
StartSystem ==
    /\ data_providers' = [ p \in 1..NumProviders |->
                             [data_providers[p] EXCEPT !.is_connected = TRUE] ]
    /\ is_running' = TRUE
    /\ UNCHANGED << now, token_cache, cache_oldest, fetch, lookup, cycle >>
    /\ UNCHANGED coreVars
    /\ UNCHANGED << trailVars, scoutVars, washVars, signalVars >>
    /\ UNCHANGED << retryVars, trackVars, botVars >>
    /\ UNCHANGED execVars

\* stop_system: is_running is cleared, then every provider is disconnected.
StopSystem ==
    /\ data_providers' = [ p \in 1..NumProviders |->
                             [data_providers[p] EXCEPT !.is_connected = FALSE] ]
    /\ is_running' = FALSE
    /\ UNCHANGED << now, token_cache, cache_oldest, fetch, lookup, cycle >>
    /\ UNCHANGED coreVars
    /\ UNCHANGED << trailVars, scoutVars, washVars, signalVars >>
    /\ UNCHANGED << retryVars, trackVars, botVars >>
    /\ UNCHANGED execVars

\* run_enhanced_cycle(token_address) is called, the cycle before it having
\* returned: it returns at once when the system is not running, else it runs
\* to the first provider await of its assessment or, on a cache hit or with
\* no provider connected, on to the trade or to its return.
CycleBegins(token_address, computation, draw) ==
    LET next == GetAggregatedTokenData(token_address, now)
        run  == RunEnhancedCycle(NewCycle(token_address), next.fetch.result,
                                 computation, draw)
        returns == next.fetch.pc = "done"
    IN  /\ \/ cycle.pc \in {"idle", "done"}
           \/ cycle.pc = "executing" /\ trade.pc = "none"
        /\ trade.pc = "none"
        /\ Len(execution_history) < MaxHistory
        /\ IF ~is_running
           THEN /\ cycle' = [NewCycle(token_address) EXCEPT
                                !.pc = "done", !.outcome = "not_running"]
                /\ UNCHANGED << fetch, token_cache, cache_oldest, trade >>
           ELSE /\ fetch' = [fetch EXCEPT ![1] = next.fetch]
                /\ token_cache' = next.token_cache
                /\ cache_oldest' = next.cache_oldest
                /\ cycle' = IF returns THEN run.cycle ELSE NewCycle(token_address)
                /\ trade' = IF returns THEN run.trade ELSE trade
        /\ UNCHANGED << now, data_providers, lookup, is_running >>
        /\ UNCHANGED << active_positions, execution_history, monitor,
                        pos_id, next_id, closed, staleEval >>
        /\ UNCHANGED coreVars
        /\ UNCHANGED << trailVars, scoutVars, washVars, signalVars >>
        /\ UNCHANGED << retryVars, trackVars, botVars >>

\* The provider that the cycle's assessment awaits answers; after the last
\* provider the cycle goes on to the trade or to its return.
CycleProviderResponds(answer, computation, draw) ==
    LET f    == AfterResponse(fetch[1], answer, now)
        next == AggregatedLoop(f, fetch[1].provider + 1, now)
        run  == RunEnhancedCycle(cycle, next.fetch.result, computation, draw)
        returns == next.fetch.pc = "done"
    IN  /\ cycle.pc = "assessing"
        /\ fetch[1].pc = "awaiting"
        /\ fetch' = [fetch EXCEPT ![1] = next.fetch]
        /\ token_cache' = next.token_cache
        /\ cache_oldest' = next.cache_oldest
        /\ cycle' = IF returns THEN run.cycle ELSE cycle
        /\ trade' = IF returns THEN run.trade ELSE trade
        /\ UNCHANGED << now, data_providers, lookup, is_running >>
        /\ UNCHANGED << active_positions, execution_history, monitor,
                        pos_id, next_id, closed, staleEval >>
        /\ UNCHANGED coreVars
        /\ UNCHANGED << trailVars, scoutVars, washVars, signalVars >>
        /\ UNCHANGED << retryVars, trackVars, botVars >>

(***************************************************************************)
(* Initial states and specifications                                       *)
(***************************************************************************)
InitBreaker ==
    /\ pc = [c \in Callers |-> "idle"]
    /\ lastEvent = "none"
    /\ before = cb
    /\ consecFails = 0
    /\ consecSucc = 0
    /\ everOpened = FALSE
    /\ probe = 0
    /\ besideProbe = {}

InitRegistry ==
    /\ circuit_breakers = InitialCircuitBreakers
    /\ error_tracker = << >>
    /\ lastResult = HandleApiErrors("ok")

InitExit ==
    /\ em = NewExitModule
    /\ position_open = FALSE
    /\ lastDecision = NoDecision
    /\ tsoActivations = 0
    /\ partialExits = 0
    /\ seenTrigger = FALSE
    /\ seenPartialLevel = FALSE

\* No call of _calculate_dynamic_trailing_pct has been made.
InitTrailIdle ==
    /\ trailing_in = [ base |-> BaseTrailingPct, volatility |-> 30, profit |-> 0 ]
    /\ trailing_pct = NoResult

\* No token has been assessed.
InitScoutIdle ==
    /\ token_data = EmptyDict
    /\ viability_score = NoResult
    /\ basic_score = NoResult
    /\ current_rpc_index = 0

\* The detector has not been called.
InitWashIdle ==
    /\ wash_in = [ transactions |-> << >>, unique_addresses |-> 0 ]
    /\ wash_out = NoVerdict

\* No signal has been generated.
InitSignalIdle ==
    /\ signal_in = EmptyDict
    /\ trade_signal = NoSignal

\* RealTimeExecutorModule.__init__, and the monitor task not yet scheduled.
InitExec ==
    /\ active_positions = << >>
    /\ execution_history = << >>
    /\ trade = NoTrade
    /\ monitor = [ pc |-> "sleeping", items |-> << >> ]
    /\ pos_id = [a \in TokenAddresses |-> 0]
    /\ next_id = 0
    /\ closed = << >>
    /\ staleEval = FALSE

\* No retried call, fetch or cycle has been started.
InitFetchIdle ==
    /\ data_providers = [ p \in 1..NumProviders |-> NewProvider(p > 1) ]
    /\ token_cache = [ a \in TokenAddresses |-> NoEntry ]
    /\ cache_oldest = [ a \in TokenAddresses |-> NoTime ]
    /\ fetch = [ c \in Fetchers |-> NoFetch ]
    /\ lookup = NoLookup

\* The tracker as the module creates it, nothing recorded.
InitTrackIdle ==
    /\ tracker = NewErrorTracker(WindowSize)
    /\ recorded = << >>
    /\ error_rate = NoResult

\* TradingBot.__init__: the books are empty.
InitBotIdle ==
    /\ trade_history = << >>
    /\ total_pnl = 0

InitIoIdle ==
    /\ retry = NoRetry
    /\ InitFetchIdle
    /\ is_running = FALSE
    /\ cycle = NoCycle
    /\ InitTrackIdle
    /\ InitBotIdle

\* The resilience layer and the exit engine around a default breaker.
InitCore ==
    /\ now = 0
    /\ cb = NewCircuitBreaker(5, 60)
    /\ InitBreaker
    /\ InitRegistry
    /\ InitExit

\* A breaker of any threshold and timeout, freshly constructed.
Init ==
    /\ now = 0
    /\ \E n \in 1..MaxThreshold, t \in 1..MaxTimeout : cb = NewCircuitBreaker(n, t)
    /\ InitBreaker
    /\ InitRegistry
    /\ InitExit
    /\ InitTrailIdle
    /\ InitScoutIdle
    /\ InitWashIdle
    /\ InitSignalIdle
    /\ InitExec
    /\ InitIoIdle

\* The registry and the exit engine start beside a default breaker.
InitDefault ==
    /\ InitCore
    /\ InitTrailIdle
    /\ InitScoutIdle
    /\ InitWashIdle
    /\ InitSignalIdle
    /\ InitExec
    /\ InitIoIdle

\* Every combination of token data, before a scorer is called.
InitScore ==
    /\ InitCore
    /\ InitTrailIdle
    /\ token_data \in Snapshots
    /\ viability_score = NoResult
    /\ basic_score = NoResult
    /\ current_rpc_index = 0
    /\ InitWashIdle
    /\ InitSignalIdle
    /\ InitExec
    /\ InitIoIdle

\* Every TokenData, before the ML scorer is called.
InitMlScore ==
    /\ InitCore
    /\ InitTrailIdle
    /\ token_data \in MlTokenData
    /\ viability_score = NoResult
    /\ basic_score = NoResult
    /\ current_rpc_index = 0
    /\ InitWashIdle
    /\ InitSignalIdle
    /\ InitExec
    /\ InitIoIdle

\* Every score, price change, volume and price, before the signal is made.
InitSignal ==
    /\ InitCore
    /\ InitTrailIdle
    /\ InitScoutIdle
    /\ InitWashIdle
    /\ signal_in \in SignalInputs
    /\ trade_signal = NoSignal
    /\ InitExec
    /\ InitIoIdle

\* Every sample and unique-address count, before the detector is called.
InitWash ==
    /\ InitCore
    /\ InitTrailIdle
    /\ InitScoutIdle
    /\ wash_in \in [ transactions : WashSamples, unique_addresses : UniqueAddressCounts ]
    /\ wash_out = NoVerdict
    /\ InitSignalIdle
    /\ InitExec
    /\ InitIoIdle

\* Every argument triple of _calculate_dynamic_trailing_pct, before the call.
InitTrailing ==
    /\ InitCore
    /\ trailing_in \in TrailingInputs
    /\ trailing_pct = NoResult
    /\ InitScoutIdle
    /\ InitWashIdle
    /\ InitSignalIdle
    /\ InitExec
    /\ InitIoIdle

\* One breaker, calls made one after another.
Next ==
    \/ \E c \in Callers : AllIdle /\ CallRejected(c)
    \/ \E c \in Callers : AllIdle /\ CallAdmitted(c)
    \/ \E c \in Callers : CallReturns(c)
    \/ \E c \in Callers : CallRaises(c)
    \/ TimePasses

Spec == Init /\ [][Next]_vars

\* One breaker shared by callers whose calls overlap.
NextConc ==
    \/ \E c \in Callers : CallRejected(c)
    \/ \E c \in Callers : CallAdmitted(c)
    \/ \E c \in Callers : CallReturns(c)
    \/ \E c \in Callers : CallRaises(c)
    \/ TimePasses

SpecConc == Init /\ [][NextConc]_vars

\* The registry behind safe_api_call.
NextReg ==
    \/ \E s \in ServiceNames, o \in Outcomes : SafeApiCall(s, o)
    \/ RegTimePasses

SpecReg == InitDefault /\ [][NextReg]_vars

\* A tracker of a small window, nothing recorded.
InitTracker ==
    /\ InitCore
    /\ InitTrailIdle
    /\ InitScoutIdle
    /\ InitWashIdle
    /\ InitSignalIdle
    /\ InitExec
    /\ retry = NoRetry
    /\ InitFetchIdle
    /\ is_running = FALSE
    /\ cycle = NoCycle
    /\ \E w \in 1..MaxWindow : tracker = NewErrorTracker(w)
    /\ recorded = << >>
    /\ error_rate = NoResult
    /\ InitBotIdle

\* An error tracker on its own.
NextTracker ==
    \/ \E e \in Exceptions : TrackerRecords(e, "api_function")
    \/ \E w \in TimeWindows : TrackerRate(w)
    \/ TrackerTimePasses

SpecTracker == InitTracker /\ [][NextTracker]_vars

\* One TradingBot, one run_cycle after another.
NextBot == \E a \in CycleTokens, in \in CycleInputs : RunCycle(a, in)

SpecBot == InitDefault /\ [][NextBot]_vars

\* The exit engine.
NextExit ==
    \/ OpenPosition
    \/ \E p \in PnlTicks, v \in Volatilities, spike \in BOOLEAN : PriceTick(p, v, spike)
    \/ ForceClose
    \/ ExitTimePasses

SpecExit == InitDefault /\ [][NextExit]_vars

\* _calculate_dynamic_trailing_pct applied to every argument triple.
NextTrailing == CalculateTrailing

SpecTrailing == InitTrailing /\ [][NextTrailing]_vars

\* The two scorers applied to every combination of token data.
NextScore ==
    \/ ScoreToken
    \/ BasicScoreToken

SpecScore == InitScore /\ [][NextScore]_vars

\* calculate_ml_viability_score applied to every TokenData.
NextMlScore == ScoreMlToken

SpecMlScore == InitMlScore /\ [][NextMlScore]_vars

\* The scout assessing tokens one after another.
NextAssess == \E a \in AssessedTokens : AssessToken(a)

SpecAssess == InitDefault /\ [][NextAssess]_vars

\* The executor: trades and the monitor task interleaved.
NextExec ==
    \/ \E sig \in TradeSignals : StartTrade(sig)
    \/ \E price \in Prices : TradePrice(price)
    \/ TradeCompletes
    \/ MonitorWakes
    \/ \E price \in Prices : MonitorPrice(price)
    \/ ExecTimePasses

SpecExec == InitDefault /\ [][NextExec]_vars

\* _generate_trade_signal applied to every input.
NextSignal == GenerateSignal

SpecSignal == InitSignal /\ [][NextSignal]_vars

\* _detect_wash_trading applied to every sample.
NextWash == DetectWash

SpecWash == InitWash /\ [][NextWash]_vars

\* Calls of functions under with_retry, one after another: a plain function
\* with every configuration, and resilient_database_operation.
NextRetry ==
    \/ \E n \in 0..MaxAttempts, j \in BOOLEAN : RetryCall(RetryConfig(n, j))
    \/ \E e \in FuncOutcomes, d \in RandomDraws : FuncAttempt(e, d)
    \/ RetryWakes
    \/ ResilientCall
    \/ \E e \in OperationOutcomes, d \in RandomDraws : ResilientAttempt(e, d)
    \/ retry.pc \in {"idle", "returned", "raised"} /\ RegTimePasses

SpecRetry == InitDefault /\ [][NextRetry]_vars

\* safe_api_call on one service whose api_function raises every kind of
\* exception.
NextHandled ==
    \/ \E o \in FuncOutcomes : SafeApiCall("coingecko", o)
    \/ RegTimePasses

SpecHandled == InitDefault /\ [][NextHandled]_vars

\* Overlapping calls of get_aggregated_token_data over providers that come
\* and go.
NextFetch ==
    \/ \E c \in Fetchers, a \in TokenAddresses : BeginFetch(c, a)
    \/ \E c \in Fetchers, answer \in ProviderAnswers : ProviderResponds(c, answer)
    \/ \E p \in 1..NumProviders : ProviderConnects(p)
    \/ \E p \in 1..NumProviders : ProviderDisconnects(p)
    \/ FetchTimePasses

SpecFetch == InitDefault /\ [][NextFetch]_vars

\* Price lookups, one at a time, while providers connect and disconnect.
NextPrice ==
    \/ \E kind \in {"get_real_time_price", "get_token_price"} : BeginLookup(kind)
    \/ \E answer \in PriceAnswers : LookupResponds(answer)
    \/ \E p \in 1..NumProviders : ProviderConnects(p)
    \/ \E p \in 1..NumProviders : ProviderDisconnects(p)

SpecPrice == InitDefault /\ [][NextPrice]_vars

\* Trading cycles, one at a time, with the trades they start, while the
\* system starts and stops, providers drop out and cache entries age.
NextCycle ==
    \/ StartSystem
    \/ StopSystem
    \/ \E p \in 1..NumProviders : ProviderDisconnects(p)
    \/ \E a \in TokenAddresses, computation \in Computations, draw \in CycleDraws :
          CycleBegins(a, computation, draw)
    \/ \E answer \in ProviderAnswers, computation \in Computations, draw \in CycleDraws :
          CycleProviderResponds(answer, computation, draw)
    \/ \E current_price \in Prices : TradePrice(current_price)
    \/ TradeCompletes
    \/ FetchTimePasses

SpecCycle == InitDefault /\ [][NextCycle]_vars

(***************************************************************************)
(* Properties of the circuit breaker                                       *)
(***************************************************************************)

\* C1: a breaker with failure_threshold N is OPEN once N failing calls in a
\* row have completed, and as long as the timeout has not elapsed after
\* that the only thing a call does is raise CircuitBreakerOpenError: func
\* is not entered and the breaker is not touched.
C1_OpensAfterThresholdFailures ==
    [][ /\ (AllIdle' /\ consecFails' >= cb'.failure_threshold) => cb'.state = OPEN
        /\ (/\ AllIdle
            /\ consecFails >= cb.failure_threshold
            /\ now - cb.last_failure_time <= cb.timeout)
           => (/\ cb' = cb
               /\ pc' = pc
               /\ lastEvent' \in {lastEvent, "rejected"}) ]_vars

C1_Witness ==
    /\ cb.failure_threshold = 3
    /\ consecFails = 3
    /\ cb.state = OPEN
    /\ lastEvent = "rejected"
    /\ AllIdle

\* C2: a call that fails while the breaker is HALF_OPEN leaves it OPEN with
\* success_count = 0, for every threshold and every number of successes
\* counted so far.
C2_HalfOpenFailureReopens ==
    (lastEvent = "raised" /\ before.state = HALF_OPEN)
        => (cb.state = OPEN /\ cb.success_count = 0)

C2_Witness ==
    /\ lastEvent = "raised"
    /\ before.state = HALF_OPEN
    /\ before.success_count = 2
    /\ cb.failure_threshold = 3
    /\ cb.state = OPEN
    /\ cb.success_count = 0

\* C3: the first and the second successful call in HALF_OPEN leave the
\* breaker HALF_OPEN, the third closes it with both counters at 0, and the
\* breaker never becomes CLOSED in any other way.
C3_ClosesAfterThreeSuccesses ==
    /\ (lastEvent = "returned" /\ before.state = HALF_OPEN /\ consecSucc < 3)
          => cb.state = HALF_OPEN
    /\ (lastEvent = "returned" /\ before.state = HALF_OPEN /\ consecSucc >= 3)
          => (cb.state = CLOSED /\ cb.failure_count = 0 /\ cb.success_count = 0)
    /\ (before.state # CLOSED /\ cb.state = CLOSED)
          => (lastEvent = "returned" /\ before.state = HALF_OPEN /\ consecSucc = 3)

C3_Witness ==
    /\ everOpened
    /\ lastEvent = "returned"
    /\ before.state = HALF_OPEN
    /\ before.success_count = 2
    /\ consecSucc = 3
    /\ cb.state = CLOSED

\* C4: while now - last_failure_time <= timeout an OPEN breaker stays OPEN
\* and every call is rejected; once the timeout has elapsed the next call
\* moves the breaker to HALF_OPEN and enters func.
C4_OpenUntilTimeout ==
    [][ /\ (cb.state = OPEN /\ now - cb.last_failure_time <= cb.timeout)
           => (/\ cb' = cb
               /\ pc' = pc
               /\ lastEvent' \in {lastEvent, "rejected"})
        /\ (cb.state = OPEN /\ now - cb.last_failure_time > cb.timeout /\ now' = now)
           => (/\ cb'.state = HALF_OPEN
               /\ lastEvent' = "invoked"
               /\ \E c \in Callers : pc[c] = "idle" /\ pc'[c] = "running") ]_vars

C4_Witness ==
    /\ lastEvent = "invoked"
    /\ before.state = OPEN
    /\ cb.state = HALF_OPEN
    /\ now = before.last_failure_time + before.timeout + 1
    /\ \E c \in Callers : pc[c] = "running"

\* C5: while the call that moved the breaker from OPEN to HALF_OPEN is
\* still inside func, no other caller of the breaker is admitted.
C5_OnlyTheProbeIsAdmitted == besideProbe = {}

\* C6: a safe_api_call made for one service name leaves the breaker that
\* every other service name resolves to as it was.
C6_BreakersAreIsolated ==
    [][ \A s \in ServiceNames, o \in Outcomes :
          SafeApiCall(s, o)
            => \A other \in ServiceNames \ {s} :
                  GetCircuitBreaker(other)' = GetCircuitBreaker(other) ]_vars

\* C7: in CLOSED failure_count is the number of failing calls since the
\* last successful one and stays below the threshold; a failing call opens
\* the breaker exactly when that run reaches the threshold, and a
\* successful call puts the count back to 0.
C7_ClosedCountsConsecutiveFailures ==
    /\ cb.state = CLOSED
          => (cb.failure_count = consecFails /\ consecFails < cb.failure_threshold)
    /\ (lastEvent = "raised" /\ before.state = CLOSED)
          => (cb.state = OPEN <=> consecFails = cb.failure_threshold)
    /\ (lastEvent = "returned" /\ before.state = CLOSED)
          => (cb.state = CLOSED /\ cb.failure_count = 0)

C7_Witness ==
    /\ cb.failure_threshold = 3
    /\ lastEvent = "returned"
    /\ before.state = CLOSED
    /\ before.failure_count = 2
    /\ cb.state = CLOSED
    /\ cb.failure_count = 0

(***************************************************************************)
(* Properties of the exit engine                                           *)
(***************************************************************************)

\* A tick carrying pnl p: update_pnl(p) followed by check_exit_conditions.
TickWith(p) == \E v \in Volatilities, spike \in BOOLEAN : PriceTick(p, v, spike)

\* C8: a tick whose pnl is at or below the fixed stop loss closes the
\* position with the stop-loss reason and changes nothing of the exit
\* module but current_pnl, whatever the trailing and partial-exit state.
C8_StopLossFirst ==
    [][ \A p \in PnlTicks :
          (TickWith(p) /\ p <= em.initial_stop_loss_pct)
            => (/\ ~position_open'
                /\ lastDecision' = [ exit |-> TRUE, reason |-> "STOP_LOSS", partial |-> FALSE ]
                /\ em' = [em EXCEPT !.current_pnl = p]
                /\ tsoActivations' = tsoActivations
                /\ partialExits' = partialExits) ]_vars

C8_Witness ==
    /\ ~position_open
    /\ lastDecision.reason = "STOP_LOSS"
    /\ em.current_pnl <= InitialStopLossPct
    /\ em.tso_active
    /\ em.peak_pnl >= 200

\* C9: within one lifecycle tso_active becomes true at most once, it does
\* so on the first tick whose pnl reaches the activation trigger, and it
\* stays true while the position stays open.
C9_TrailingActivatesOnce ==
    [][ /\ tsoActivations' <= 1
        /\ (position_open /\ position_open' /\ em.tso_active) => em'.tso_active
        /\ \A p \in PnlTicks :
             (TickWith(p) /\ p >= em.activation_trigger_pct /\ ~seenTrigger)
               => em'.tso_active ]_vars

\* C10: within one lifecycle the partial exit is emitted at most once, on
\* the first tick whose pnl reaches 0.75, and the tick that emits it leaves
\* the position open.
C10_PartialExitOnce ==
    [][ /\ partialExits' <= 1
        /\ \A p \in PnlTicks :
             (TickWith(p) /\ p >= PartialExitPct /\ ~seenPartialLevel)
               => lastDecision'.partial
        /\ \A p \in PnlTicks :
             (TickWith(p) /\ lastDecision'.partial) => position_open' ]_vars

\* C11: while a position is open and tso_active is true, peak_pnl is at
\* least current_pnl, after every tick, the activating one included.
C11_PeakAboveCurrent ==
    (position_open /\ em.tso_active) => em.peak_pnl >= em.current_pnl

C11_Witness ==
    /\ position_open
    /\ em.tso_active
    /\ em.peak_pnl = 210
    /\ em.current_pnl = 160
    /\ em.partial_exit_executed

\* C14: opening a position on an exit module that has managed positions
\* before leaves current_pnl = 0, peak_pnl = 0, tso_active = FALSE,
\* partial_exit_executed = FALSE and position_start_time = now.
C14_OpenStartsFromInitialState ==
    [][ (~position_open /\ position_open')
          => em' = [NewExitModule EXCEPT !.position_start_time = now'] ]_vars

C14_Witness ==
    /\ position_open
    /\ lastDecision.reason = "TRAILING_STOP"
    /\ now > 0
    /\ em = [NewExitModule EXCEPT !.position_start_time = now]

\* C12: the trailing fraction returned by _calculate_dynamic_trailing_pct
\* lies in [0.05, 0.35] for every base trailing value, every volatility
\* (negative and above 1.00 included) and every profit level.
C12_TrailingPctInRange ==
    trailing_pct # NoResult => (5000 <= trailing_pct /\ trailing_pct <= 35000)

C12_Witness ==
    /\ trailing_in.volatility < 0
    /\ trailing_in.base = 5
    /\ trailing_in.profit > 200
    /\ trailing_pct = 5000

(***************************************************************************)
(* Properties of the scout                                                 *)
(***************************************************************************)

\* C15: for every combination of concentration, lock ratio, wash-trading
\* flag, liquidity, volume and security flags the score returned by
\* calculate_viability_score lies in [0, 100].
C15_ScoreInRange ==
    viability_score # NoResult => (0 <= viability_score /\ viability_score <= 100)

C15_Witness ==
    /\ viability_score = 0
    /\ ~token_data.security_report.is_honeypot
    /\ ~token_data.security_report.is_blacklisted
    /\ token_data.top_10_concentration = 51
    /\ token_data.lp_locked_percentage = 69
    /\ token_data.transaction_history.wash_trading_detected
    /\ token_data.liquidity_depth = 9999
    /\ SecurityDeductions(token_data.security_report) = 22

\* C16: with is_honeypot or is_blacklisted set the score is 0 whatever the
\* other fields are, in trading_bot_enhanced.py and in trading_bot.py.
C16_DisqualifiedScoresZero ==
    (token_data.security_report.is_honeypot \/ token_data.security_report.is_blacklisted)
        => /\ viability_score # NoResult => viability_score = 0
           /\ basic_score # NoResult => basic_score = 0

C16_Witness ==
    /\ token_data.security_report.is_honeypot
    /\ ~token_data.security_report.is_blacklisted
    /\ token_data.security_report.transfer_pausable
    /\ token_data.top_10_concentration = 25
    /\ token_data.lp_locked_percentage = 96
    /\ token_data.liquidity_depth = 200000
    /\ viability_score = 0
    /\ basic_score = 0

\* C17: without a disqualifying flag the score is
\* clamp(100 - C - P - W + (L - 0.5) * 30 - S, 0, 100) with C, P, W, L and S
\* as the scoring table gives them; concentration 0.25, lock ratio 0.96, no
\* flags, liquidity 200,000 and volume 100,000 score 100.
C17_ScoreFormula ==
    LET td == token_data
        r  == td.security_report
        C  == CASE td.top_10_concentration > 50 -> 30
                [] td.top_10_concentration \in 41..50 -> 20
                [] td.top_10_concentration \in 31..40 -> 10
                [] OTHER -> 0
        P  == CASE td.lp_locked_percentage < 70 -> 40
                [] td.lp_locked_percentage \in 70..84 -> 25
                [] td.lp_locked_percentage \in 85..94 -> 10
                [] OTHER -> 0
        W  == IF td.transaction_history.wash_trading_detected THEN 35 ELSE 0
        \* the liquidity tier, in tenths
        L  == CASE td.liquidity_depth < 10000 -> 0
                [] td.liquidity_depth \in 10000..49999 -> 3
                [] td.liquidity_depth \in 50000..99999 -> 6
                [] OTHER -> IF td.volume_24h <= 0 \/ 2 * td.liquidity_depth > td.volume_24h
                            THEN 10 ELSE 8
        flag(b, points) == IF b THEN points ELSE 0
        S  == flag(r.transfer_pausable, 3) + flag(r.is_mintable, 3)
                + flag(r.hidden_owner, 4) + flag(r.can_take_back_ownership, 5)
                + flag(r.owner_change_balance, 5) + flag(r.external_call, 2)
        raw == 100 - C - P - W + (L - 5) * 3 - S
        clamped == IF raw < 0 THEN 0 ELSE IF raw > 100 THEN 100 ELSE raw
    IN  (viability_score # NoResult /\ ~r.is_honeypot /\ ~r.is_blacklisted)
            => /\ viability_score = clamped
               /\ (/\ td.top_10_concentration = 25
                   /\ td.lp_locked_percentage = 96
                   /\ W = 0
                   /\ S = 0
                   /\ td.liquidity_depth = 200000
                   /\ td.volume_24h = 100000) => viability_score = 100

C17_Witness ==
    /\ viability_score = 100
    /\ token_data.top_10_concentration = 25
    /\ token_data.lp_locked_percentage = 96
    /\ ~token_data.transaction_history.wash_trading_detected
    /\ SecurityDeductions(token_data.security_report) = 0
    /\ ~token_data.security_report.is_honeypot
    /\ ~token_data.security_report.is_blacklisted
    /\ token_data.liquidity_depth = 200000
    /\ token_data.volume_24h = 100000

\* C18: when _detect_wash_trading flags the transaction sample and the
\* unique-address count of a token, the score that assess_token produces
\* for that token carries the wash-trading deduction of 35 points.
C18_DetectedWashTradingIsDeducted ==
    viability_score # NoResult =>
        LET h == token_data.transaction_history
        IN  DetectWashTrading(h.transactions, h.unique_addresses).result
              => viability_score =
                    CalculateViabilityScore(
                        [token_data EXCEPT !.transaction_history.wash_trading_detected = TRUE])

\* C19: the detector flags a sample iff at least one of its three
\* sub-checks fires; the Benford sub-check fires only for samples of 30 or
\* more, the uniformity sub-check only for samples of more than 10, and
\* the counterparty sub-check fires iff sample size / unique addresses > 5.
C19_DetectorStructure ==
    wash_out.called =>
        LET n == Len(wash_in.transactions)
            u == wash_in.unique_addresses
        IN  /\ wash_out.result <=> (\/ wash_out.benford_violation
                                    \/ wash_out.uniformity_suspicious
                                    \/ wash_out.address_ratio_suspicious)
            /\ wash_out.benford_violation => n >= 30
            /\ wash_out.uniformity_suspicious => n > 10
            /\ u > 0 => (wash_out.address_ratio_suspicious <=> n > 5 * u)

C19_Witness ==
    /\ wash_out.called
    /\ wash_in.transactions = NinesSample(30)
    /\ wash_in.unique_addresses = 6
    /\ wash_out.benford_violation
    /\ ~wash_out.uniformity_suspicious
    /\ ~wash_out.address_ratio_suspicious
    /\ wash_out.result

\* C20: _generate_trade_signal applies the first rule that matches, in the
\* order (1) score >= 80 and price change > 5: BUY, (2) score >= 70 and
\* volume > 1,000,000: BUY, (3) score < 40 or price change < -15: SELL,
\* (4) HOLD; every input yields one of BUY, SELL, HOLD, and an input that
\* matches rules 2 and 3 yields BUY.
C20_FirstMatchingRule ==
    trade_signal.signal_type # "NONE" =>
        LET score == signal_in.viability_score
            td    == signal_in.token_data
            rule1 == score >= 80 * ScoreScale /\ td.price_change_24h > 5
            rule2 == score >= 70 * ScoreScale /\ td.volume_24h > 1000000
            rule3 == score < 40 * ScoreScale \/ td.price_change_24h < -15
            \* the stop loss tells the two BUY rules apart: 15% and 10%
            by1 == /\ trade_signal.signal_type = "BUY"
                   /\ trade_signal.stop_loss = (td.price_usd * 85) \div 100
            by2 == /\ trade_signal.signal_type = "BUY"
                   /\ trade_signal.stop_loss = (td.price_usd * 90) \div 100
        IN  /\ trade_signal.signal_type \in {"BUY", "SELL", "HOLD"}
            /\ rule1 => by1
            /\ (~rule1 /\ rule2) => by2
            /\ (~rule1 /\ ~rule2 /\ rule3) => trade_signal.signal_type = "SELL"
            /\ (~rule1 /\ ~rule2 /\ ~rule3) => trade_signal.signal_type = "HOLD"
            /\ (rule2 /\ rule3) => trade_signal.signal_type = "BUY"

C20_Witness ==
    /\ signal_in.viability_score = 70 * ScoreScale
    /\ signal_in.token_data.volume_24h = 1000001
    /\ signal_in.token_data.price_change_24h = -16
    /\ trade_signal.signal_type = "BUY"
    /\ trade_signal.stop_loss = (signal_in.token_data.price_usd * 90) \div 100

(***************************************************************************)
(* Properties of the executor                                              *)
(***************************************************************************)

\* C13: closing is terminal.  Whenever an address leaves active_positions,
\* exactly one exit record (entry price, exit price, pnl, reason, hold
\* time) of the position it held is appended, and an exit record is
\* appended only then; a closed position is never active, in the monitor's
\* hands or evaluated again, and no position is closed twice; and
\* _close_position for an address without a position changes nothing.
C13_ClosingIsTerminal ==
    [][ LET IsExit(r) == "reason" \in DOMAIN r
            exits == SelectSeq(execution_history', IsExit)
        IN  /\ \A a \in TokenAddresses :
                  (HasPosition(active_positions, a) /\ ~HasPosition(active_positions', a))
                    => LET p == PositionOf(active_positions, a)
                       IN  \E price \in Prices \ {0}, reason \in {"TARGET_REACHED", "STOP_LOSS"} :
                             execution_history' =
                               Append(execution_history,
                                      [ timestamp     |-> now,
                                        token_address |-> a,
                                        entry_price   |-> p.entry_price,
                                        exit_price    |-> price,
                                        pnl           |-> ((price - p.entry_price) * 10000)
                                                             \div p.entry_price,
                                        reason        |-> reason,
                                        hold_time     |-> now - p.entry_time ])
            /\ (/\ Len(execution_history') > Len(execution_history)
                /\ IsExit(execution_history'[Len(execution_history')]))
                  => /\ Len(execution_history') = Len(execution_history) + 1
                     /\ Len(active_positions') = Len(active_positions) - 1
            /\ Len(exits) = Len(closed')
            /\ Cardinality(IdsOf(closed')) = Len(closed')
            /\ \A a \in TokenAddresses : pos_id'[a] \notin IdsOf(closed')
            /\ \A i \in 1..Len(monitor'.items) : monitor'.items[i].id \notin IdsOf(closed')
            /\ ~staleEval'
            /\ \A a \in TokenAddresses :
                  ~HasPosition(active_positions', a)
                    => \A price \in Prices, reason \in {"TARGET_REACHED", "STOP_LOSS"} :
                          ClosePosition(active_positions', execution_history', a,
                                        price, reason, now')
                            = [ active_positions  |-> active_positions',
                                execution_history |-> execution_history' ] ]_vars

C13_Witness ==
    /\ Len(closed) = 1
    /\ ~HasPosition(active_positions, "0xA")
    /\ HasPosition(active_positions, "0xB")
    /\ monitor.pc = "sleeping"
    /\ Len(execution_history) = 3
    /\ "reason" \in DOMAIN execution_history[2]
    /\ execution_history[2].token_address = "0xA"
    /\ execution_history[2].reason = "STOP_LOSS"

(***************************************************************************)
(* Properties of the retry wrapper and of resilient_database_operation     *)
(***************************************************************************)
Resilient == retry.pc # "idle" /\ retry.func = "resilient_database_operation"
Attempted == Resilient /\ retry.outcomes # << >>
\* The database breaker was OPEN with its timeout not elapsed when the
\* first attempt of the call was made.
FirstAttemptMetOpenBreaker ==
    /\ Attempted
    /\ retry.outcomes[1].breaker.state = OPEN
    /\ ~ShouldAttemptReset(retry.outcomes[1].breaker, retry.outcomes[1].at)

\* C26: when the database breaker is OPEN and its timeout has not elapsed,
\* resilient_database_operation does not invoke the operation, makes one
\* attempt only and no backoff wait, leaves the breaker as it was, and
\* returns the non-retryable "Service unavailable" result.
C26_OpenBreakerShortCircuits ==
    FirstAttemptMetOpenBreaker =>
        /\ retry.pc = "returned"
        /\ retry.invocations = 1
        /\ Len(retry.outcomes) = 1
        /\ ~retry.outcomes[1].invoked
        /\ retry.delays = << >>
        /\ circuit_breakers["database"] = retry.outcomes[1].breaker
        /\ lastResult = [ success |-> FALSE, error |-> "Service unavailable",
                          retry |-> FALSE, error_type |-> "circuit_breaker" ]

C26_Witness ==
    /\ FirstAttemptMetOpenBreaker
    /\ retry.pc = "returned"
    /\ retry.outcomes[1].breaker.failure_count = DatabaseThreshold
    /\ lastResult.error = "Service unavailable"

\* C27: in resilient_database_operation an operation that fails with a
\* connection failure or a timeout is attempted again after a backoff wait
\* (three attempts at most), each failed attempt counted by the database
\* breaker.
C27_FailedOperationIsReattempted ==
    ( /\ Attempted
      /\ retry.pc \in {"returned", "raised"}
      /\ retry.outcomes[1].invoked
      /\ retry.outcomes[1].raised \in {"ConnectionError", "TimeoutError"} )
    => /\ retry.invocations >= 2
       /\ retry.delays # << >>

\* C28: a function under with_retry(config) is invoked at most max_attempts
\* times; the wrapper returns at the first attempt that succeeds, has slept
\* once after each failed attempt but the last, and after max_attempts
\* failures raises what the last attempt raised.
C28_RetryAtMostMaxAttempts ==
    (retry.pc # "idle" /\ retry.func = "func") =>
        LET n        == retry.config.max_attempts
            outcomes == retry.outcomes
            failures == { i \in 1..Len(outcomes) : outcomes[i] # "ok" }
        IN  /\ retry.invocations <= n
            /\ retry.invocations = Len(outcomes)
            /\ retry.pc = "attempting" =>
                  /\ failures = 1..Len(outcomes)
                  /\ Len(retry.delays) = Len(outcomes)
                  /\ retry.invocations < n
            /\ retry.pc = "sleeping" =>
                  /\ failures = 1..Len(outcomes)
                  /\ Len(retry.delays) = Len(outcomes)
                  /\ retry.invocations < n
            /\ retry.pc = "returned" =>
                  /\ outcomes # << >>
                  /\ failures = 1..(Len(outcomes) - 1)
                  /\ Len(retry.delays) = Len(outcomes) - 1
            /\ (retry.pc = "raised" /\ n > 0) =>
                  /\ retry.invocations = n
                  /\ failures = 1..n
                  /\ Len(retry.delays) = n - 1
                  /\ retry.raises = outcomes[n]

C28_Witness ==
    /\ retry.pc = "raised"
    /\ retry.func = "func"
    /\ retry.outcomes = << "ConnectionError", "TimeoutError", "ValueError" >>
    /\ retry.raises = "ValueError"
    /\ Len(retry.delays) = 2

\* C29: a function wrapped by handle_api_errors returns a dict whatever the
\* function does: success for a return, and for an exception its class
\* mapped to (error_type, retry): ConnectionError (connection, true),
\* TimeoutError (timeout, true), CircuitBreakerOpenError (circuit_breaker,
\* false), ValueError (validation, false), any other (internal, false).
C29_ErrorsBecomeResults ==
    [][ \A o \in FuncOutcomes :
          SafeApiCall("coingecko", o) =>
            LET raised == IF Rejects(circuit_breakers["coingecko"], now)
                          THEN "CircuitBreakerOpenError" ELSE o
                kind(error_type, retry_flag) ==
                    /\ ~lastResult'.success
                    /\ lastResult'.error_type = error_type
                    /\ lastResult'.retry = retry_flag
            IN  /\ raised = "ok" => lastResult'.success
                /\ raised = "ConnectionError" => kind("connection", TRUE)
                /\ raised = "TimeoutError" => kind("timeout", TRUE)
                /\ raised = "CircuitBreakerOpenError" => kind("circuit_breaker", FALSE)
                /\ raised = "ValueError" => kind("validation", FALSE)
                /\ raised = "KeyError" => kind("internal", FALSE) ]_vars

C29_Witness ==
    /\ Len(error_tracker) = 4
    /\ error_tracker[1].error_type = "TimeoutError"
    /\ error_tracker[2].error_type = "KeyError"
    /\ error_tracker[3].error_type = "ValueError"
    /\ error_tracker[4].error_type = "CircuitBreakerOpenError"
    /\ lastResult.error_type = "circuit_breaker"
    /\ ~lastResult.retry

\* C21: every TradeSignal of _generate_trade_signal has a confidence within
\* [0, 1], for every score in [0, 100] (what the scorer passes in) and
\* every snapshot: min(0.95, score/100 + 0.1) under rule 1,
\* min(0.85, score/100) under rule 2, min(0.90, (100 - score)/100) for
\* SELL and 0.60 for HOLD.
C21_ConfidenceInRange ==
    trade_signal.signal_type # "NONE" =>
        LET score == signal_in.viability_score
            td    == signal_in.token_data
            rule1 == score >= 80 * ScoreScale /\ td.price_change_24h > 5
            rule2 == score >= 70 * ScoreScale /\ td.volume_24h > 1000000
            sells == trade_signal.signal_type = "SELL"
            holds == trade_signal.signal_type = "HOLD"
        IN  /\ score >= 0 /\ score <= 100 * ScoreScale
            /\ trade_signal.confidence >= 0
            /\ trade_signal.confidence <= 1000000
            /\ rule1 => trade_signal.confidence = Min(950000, score + 100000)
            /\ (~rule1 /\ rule2) => trade_signal.confidence = Min(850000, score)
            /\ sells => trade_signal.confidence = Min(900000, 100 * ScoreScale - score)
            /\ holds => trade_signal.confidence = 600000

\* A SELL on the price drop alone, with the score the scorer gives a
\* snapshot that is otherwise at its best: the lowest confidence it reaches.
C21_Witness ==
    /\ trade_signal.signal_type = "SELL"
    /\ signal_in.token_data.price_change_24h = -16
    /\ signal_in.token_data.liquidity = 10000000
    /\ signal_in.viability_score = CalculateMlViabilityScore(signal_in.token_data)
    /\ signal_in.viability_score >= 60 * ScoreScale
    /\ trade_signal.confidence = 100 * ScoreScale - signal_in.viability_score

(***************************************************************************)
(* Properties of get_aggregated_token_data and of its cache                *)
(***************************************************************************)
\* The entry of address a is there and younger than cache_ttl.
Fresh(a) ==
    /\ token_cache[a].cached
    /\ now - token_cache[a].timestamp < CacheTtl

\* Caller c calls get_aggregated_token_data(a) in this step.
Calls(c, a) ==
    /\ fetch[c].pc = "idle"
    /\ fetch'[c].pc # "idle"
    /\ fetch'[c].token_address = a

\* C22: a call of get_aggregated_token_data for an address whose cache
\* entry is younger than cache_ttl returns the cached TokenData itself,
\* calls no provider and leaves the cache as it is.
C22_FreshEntryIsReturned ==
    [][\A c \in Fetchers : \A a \in TokenAddresses :
          (Calls(c, a) /\ Fresh(a)) =>
              /\ fetch'[c].pc = "done"
              /\ fetch'[c].result = token_cache[a].data
              /\ fetch'[c].calls = << >>
              /\ fetch'[c].returned_at = now
              /\ token_cache' = token_cache]_vars

\* One call filled the cache from both providers and a later one, made
\* while the entry was 20 seconds old, got the same TokenData.
C22_Witness ==
    \E c1, c2 \in Fetchers :
        /\ fetch[c1].pc = "done" /\ fetch[c2].pc = "done"
        /\ fetch[c1].token_address = fetch[c2].token_address
        /\ ~fetch[c1].cache_hit
        /\ Len(fetch[c1].provider_data) = NumProviders
        /\ fetch[c2].cache_hit
        /\ fetch[c2].calls = << >>
        /\ fetch[c2].returned_at = fetch[c1].returned_at + FetchClockStep
        /\ fetch[c2].result = fetch[c1].result

\* C23: no call returns from the cache a snapshot that holds provider data
\* older than cache_ttl.
C23_NoStaleHit ==
    \A c \in Fetchers :
        (fetch[c].pc = "done" /\ fetch[c].cache_hit) =>
            fetch[c].returned_at - fetch[c].oldest <= CacheTtl

\* C24: a call that found no fresh entry returns None exactly when none of
\* the providers it called returned data.
C24_NoneIffNoProviderData ==
    \A c \in Fetchers :
        (fetch[c].pc = "done" /\ ~fetch[c].cache_hit) =>
            (fetch[c].result = NoData <=>
                \A i \in 1..Len(fetch[c].responses) : fetch[c].responses[i] # "data")

\* The first provider returned data and the last one raised: the call
\* returned the first provider's data.
C24_Witness ==
    \E c \in Fetchers :
        /\ fetch[c].pc = "done"
        /\ ~fetch[c].cache_hit
        /\ fetch[c].responses = << "data", "raise" >>
        /\ fetch[c].result # NoData
        /\ fetch[c].result.price_usd = 100

(***************************************************************************)
(* Properties of the best-first price lookups                              *)
(***************************************************************************)
\* `provider.is_connected`, and for get_token_price that the provider has
\* the method.
MayBeCalled(k, kind) ==
    /\ data_providers[k].is_connected
    /\ kind = "get_token_price" => data_providers[k].has_get_token_price

\* The lookup calls a provider in this step.
LookupCalls ==
    /\ lookup'.pc = "awaiting"
    /\ lookup' # lookup

\* The position in the list of the provider called before this step's, 0
\* when this step's is the first call of the lookup.
CalledBefore ==
    IF Len(lookup'.calls) = 1 THEN 0 ELSE lookup'.calls[Len(lookup'.calls) - 1]

\* C25: a price lookup calls providers in list order, each of them connected
\* when it is called and every provider it passes over not connected (or
\* without the method); it goes on after an answer that is an exception,
\* None or 0.0, returns the first price it gets without a further call, and
\* returns None only after the last provider it could call.
C25_BestFirst ==
    [][/\ LookupCalls =>
            LET k == lookup'.calls[Len(lookup'.calls)]
            IN  /\ k > CalledBefore
                /\ MayBeCalled(k, lookup'.kind)
                /\ \A j \in (CalledBefore + 1)..(k - 1) : ~MayBeCalled(j, lookup'.kind)
                /\ \A i \in 1..Len(lookup'.responses) : lookup'.responses[i] # "price"
       /\ (lookup'.pc = "done" /\ lookup' # lookup) =>
            LET n    == Len(lookup'.calls)
                last == IF n = 0 THEN 0 ELSE lookup'.calls[n]
            IN  /\ Len(lookup'.responses) = n
                /\ \A i \in 1..(n - 1) : lookup'.responses[i] # "price"
                /\ IF n > 0 /\ lookup'.responses[n] = "price"
                   THEN lookup'.result = [ price |-> ProviderPrice(last) ]
                   ELSE /\ lookup'.result = NoData
                        /\ \A j \in (last + 1)..NumProviders :
                               ~MayBeCalled(j, lookup'.kind)]_vars

\* _get_real_time_price went past the first provider, which raised, and
\* returned the price of the second.
C25_Witness ==
    /\ lookup.pc = "done"
    /\ lookup.kind = "get_real_time_price"
    /\ lookup.calls = << 1, 2 >>
    /\ lookup.responses = << "raise", "price" >>
    /\ lookup.result = [ price |-> ProviderPrice(2) ]

(***************************************************************************)
(* Properties of run_enhanced_cycle                                        *)
(***************************************************************************)
\* The cycle returns in this step.
CycleReturns ==
    /\ cycle' # cycle
    /\ cycle'.pc = "done"

\* The assessment of the cycle that returns in this step got data from no
\* provider and from no cache entry.
NoProviderData ==
    /\ cycle'.outcome # "not_running"
    /\ ~fetch'[1].cache_hit
    /\ \A i \in 1..Len(fetch'[1].responses) : fetch'[1].responses[i] # "data"

\* The step starts no trade and leaves the positions and the history alone.
NoAction ==
    /\ trade' = NoTrade
    /\ active_positions' = active_positions
    /\ execution_history' = execution_history

\* C30: a cycle whose assessment gets data from no provider has the
\* assessment (0.0, None, None) and returns without a trade, a position or
\* an exception; an exception raised inside a cycle does not reach the
\* caller and the cycle returns with active_positions as they were.
C30_FailedCycleIsNoAction ==
    [][CycleReturns =>
          /\ ~cycle'.escaped
          /\ NoProviderData =>
                /\ cycle'.assessment = [ viability_score |-> 0, token_data |-> NoData,
                                         trade_signal |-> NoSignal ]
                /\ cycle'.raised = "none"
                /\ NoAction
          /\ cycle'.raised # "none" => NoAction]_vars

\* With a position open from an earlier cycle, a cycle for the same address
\* found the cache entry expired, had one provider raise and the other
\* return nothing, and returned with the position as it was.
C30_Witness ==
    /\ cycle.pc = "done"
    /\ cycle.outcome = "rejected"
    /\ cycle.assessment.viability_score = 0
    /\ cycle.assessment.token_data = NoData
    /\ fetch[1].responses = << "raise", "none" >>
    /\ HasPosition(active_positions, cycle.token_address)
    /\ trade = NoTrade

(***************************************************************************)
(* Properties of calculate_ml_viability_score                              *)
(***************************************************************************)
\* C31: the score that calculate_ml_viability_score returns lies between 0
\* and 100, whatever TokenData it is given.
C31_MlScoreInRange ==
    viability_score # NoResult =>
        /\ viability_score >= 0
        /\ viability_score <= 100 * ScoreScale

(***************************************************************************)
(* Properties of the trailing stop                                         *)
(***************************************************************************)
\* With trailing active before the tick, pnl p is at or below the trailing
\* level: the peak, raised to p when p is above it, less the trailing
\* fraction that the tick's volatility and pnl give.
AtOrBelowTrailingLevel(p, v) ==
    /\ em.tso_active
    /\ p * 100000 <=
          Max(em.peak_pnl, p) * (100000 - CalculateDynamicTrailingPct(em, v, p))

\* C32: once trailing is active, a tick whose pnl is at or below the
\* trailing level closes the position on that tick, by the trailing stop or
\* by the fixed stop loss, whatever the pnl, 0 and negative values included.
C32_TrailingStopCloses ==
    [][ \A p \in PnlTicks, v \in Volatilities, spike \in BOOLEAN :
          (PriceTick(p, v, spike) /\ AtOrBelowTrailingLevel(p, v))
            => (/\ ~position_open'
                /\ lastDecision'.exit
                /\ lastDecision'.reason \in {"TRAILING_STOP", "STOP_LOSS"}) ]_vars

\* The fraction of the trailing formula in units of 1/100000: the base plus
\* the volatility adjustment, clamped to [0.05, 0.35], scaled by the tier
\* of the profit and clamped again.
TieredTrailingFraction(base, v, profit) ==
    LET clamp(x) == Max(5000, Min(35000, x))
        t        == clamp(base * 1000 + Min(v * 500, 15000))
    IN  clamp(IF profit > 200 THEN (t * 7) \div 10
              ELSE IF profit > 150 THEN (t * 8) \div 10
              ELSE IF profit > 100 THEN (t * 9) \div 10
              ELSE t)

\* C33: on every tick that reaches the trailing-stop check, the trailing
\* fraction the check uses is the tiered fraction with the tier selected by
\* the peak pnl.
C33_TierSelectedByPeak ==
    [][ \A p \in PnlTicks, v \in Volatilities, spike \in BOOLEAN :
          (/\ PriceTick(p, v, spike)
           /\ em'.tso_active
           /\ lastDecision'.reason \notin {"STOP_LOSS", "PARTIAL_EXIT"})
            => DynamicTrailingPct(em', v) =
                 TieredTrailingFraction(em'.base_trailing_pct, v, em'.peak_pnl) ]_vars

(***************************************************************************)
(* The writes of get_aggregated_token_data to its cache                    *)
(***************************************************************************)
\* The call of caller c returns in this step.
FetchReturns(c) ==
    /\ fetch'[c] # fetch[c]
    /\ fetch'[c].pc = "done"

\* C34: a fetch that returns an aggregate writes it, with the current time,
\* over the entry of its address; a fetch that returns None leaves the cache
\* as it is; and nothing but the entry of the address fetched ever changes.
C34_CacheWrites ==
    [][ /\ \A c \in Fetchers :
             FetchReturns(c) =>
                 LET f == fetch'[c]
                 IN  /\ (~f.cache_hit /\ f.result # NoData) =>
                            token_cache'[f.token_address] =
                                [ cached |-> TRUE, data |-> f.result, timestamp |-> now ]
                     /\ (f.cache_hit \/ f.result = NoData) => token_cache' = token_cache
                     /\ \A b \in TokenAddresses \ {f.token_address} :
                            token_cache'[b] = token_cache[b]
        /\ (\A c \in Fetchers : ~FetchReturns(c)) => token_cache' = token_cache ]_vars

\* A fetch that found the entry of its address expired and got data from no
\* provider has returned None, the expired entry and the fresh entry of the
\* other address still in the cache.
C34_Witness ==
    \E c \in Fetchers : \E b \in TokenAddresses :
        /\ fetch[c].pc = "done"
        /\ ~fetch[c].cache_hit
        /\ fetch[c].result = NoData
        /\ fetch[c].responses # << >>
        /\ token_cache[fetch[c].token_address].cached
        /\ fetch[c].returned_at - token_cache[fetch[c].token_address].timestamp >= CacheTtl
        /\ b # fetch[c].token_address

(***************************************************************************)
(* Frame and invariants of the circuit breaker                             *)
(***************************************************************************)
\* C36: a call rejected with CircuitBreakerOpenError leaves state,
\* failure_count, success_count and last_failure_time as they were.
C36_RejectionLeavesBreaker ==
    [][ \A c \in Callers :
          CallRejected(c) =>
              /\ cb'.state = cb.state
              /\ cb'.failure_count = cb.failure_count
              /\ cb'.success_count = cb.success_count
              /\ cb'.last_failure_time = cb.last_failure_time ]_vars

\* A call was rejected after the clock moved on from the last failure, and
\* the open breaker is as it was before the call.
C36_Witness ==
    /\ lastEvent = "rejected"
    /\ before = cb
    /\ cb.state = OPEN
    /\ cb.last_failure_time # NoTime
    /\ now > cb.last_failure_time

\* C37: the state is one of the three; OPEN and HALF_OPEN have
\* failure_count >= failure_threshold and a last_failure_time; success_count
\* is non-zero only in HALF_OPEN and at most 2 between calls.
C37_CountersMatchState ==
    /\ cb.state \in CircuitState
    /\ cb.state \in {OPEN, HALF_OPEN} =>
           /\ cb.failure_count >= cb.failure_threshold
           /\ cb.last_failure_time # NoTime
    /\ cb.success_count # 0 => cb.state = HALF_OPEN
    /\ AllIdle => cb.success_count \in 0..(RequiredSuccesses - 1)

\* A recovering breaker of threshold 2 or more holds two successes, no call
\* in flight.
C37_Witness ==
    /\ AllIdle
    /\ cb.state = HALF_OPEN
    /\ cb.success_count = RequiredSuccesses - 1
    /\ cb.failure_threshold > 1
    /\ cb.failure_count >= cb.failure_threshold

(***************************************************************************)
(* The window of the error tracker                                         *)
(***************************************************************************)
\* The last k elements of a sequence.
LastOf(seq, k) == SubSeq(seq, Len(seq) - k + 1, Len(seq))

\* C38: the tracker holds at most window_size records: the most recent
\* min(n, window_size) of the n recorded, in their order; and
\* get_error_rate returns a value within [0, 1].
C38_TrackerWindow ==
    /\ Len(tracker.errors) <= tracker.window_size
    /\ tracker.errors = LastOf(recorded, Min(Len(recorded), tracker.window_size))
    /\ error_rate # NoResult => (0 <= error_rate /\ error_rate <= 1000000)

\* More errors were recorded than the window holds, the oldest one, unlike
\* the ones kept, was dropped, and the rate of a full window was asked for.
C38_Witness ==
    /\ Len(recorded) > tracker.window_size
    /\ tracker.window_size > 1
    /\ recorded[1] # tracker.errors[1]
    /\ Len(tracker.errors) = tracker.window_size
    /\ error_rate = 1000000

(***************************************************************************)
(* The books of the TradingBot                                             *)
(***************************************************************************)
RECURSIVE SumPnl(_)
SumPnl(history) ==
    IF history = << >> THEN 0 ELSE history[1].pnl + SumPnl(Tail(history))

\* A run_cycle has run: the bot is no longer as it was.
BotChanges == << em, position_open, trade_history, total_pnl >>' #
              << em, position_open, trade_history, total_pnl >>

\* C39: every run_cycle appends exactly one record to trade_history and
\* returns with position_open False, and total_pnl is the sum of the pnl
\* fields of trade_history.
C39_OneRecordPerCycle ==
    [][ BotChanges =>
              /\ Len(trade_history') = Len(trade_history) + 1
              /\ SubSeq(trade_history', 1, Len(trade_history)) = trade_history
              /\ position_open' = FALSE
              /\ total_pnl' = SumPnl(trade_history') ]_vars

\* Three cycles have run: one closed by an exit decision with a profit or a
\* loss, one ended by an exception of the exit phase, one that never traded.
C39_Witness ==
    /\ Len(trade_history) = 3
    /\ \E i \in 1..3 : /\ trade_history[i].result = "COMPLETED"
                       /\ trade_history[i].pnl # 0
                       /\ trade_history[i].reason # "Simulation ended - manual close"
    /\ \E i \in 1..3 : /\ trade_history[i].result = "ERROR"
                       /\ trade_history[i].reason = "Exit error"
    /\ \E i \in 1..3 : trade_history[i].result \in {"SKIPPED", "FAILED"}
    /\ total_pnl # 0
    /\ ~position_open

(***************************************************************************)
(* The positions of the executor and the monitor's view of them            *)
(***************************************************************************)
\* C35: when the monitor closes the position of an address, that position
\* is the one of its snapshot, whose target and stop loss it has compared
\* with the price.
C35_MonitorClosesWhatItEvaluated ==
    [][ (monitor.pc = "awaiting_price" /\ closed' # closed) =>
            LET item == Head(monitor.items)
            IN  /\ closed'[Len(closed')] = item.id
                /\ PositionOf(active_positions, item.token_address) = item.position ]_vars

\* C40: a position that leaves active_positions, or gives its entry to
\* another one, has been closed by _close_position, and positions appear
\* only when a BUY completes.
C40_PositionsLeaveByClosing ==
    [][ \A a \in TokenAddresses :
            /\ (pos_id[a] # 0 /\ pos_id'[a] # pos_id[a]) => pos_id[a] \in IdsOf(closed')
            /\ (pos_id'[a] # 0 /\ pos_id'[a] # pos_id[a]) =>
                   (trade.pc = "executing" /\ trade.signal.signal_type = "BUY"
                    /\ trade.signal.token_address = a) ]_vars

====
